---- MODULE Spec2Model ----
(***************************************************************************)
(* The Petal workflow executor (lily.petal.executor) as a state machine:   *)
(* PetalExecutor.execute drives the steps of a PetalFile one by one over a *)
(* WorkflowState, looking each step's tool up in the tool registry.        *)
(***************************************************************************)
EXTENDS Integers, Sequences, FiniteSets, TLC

VARIABLES
    pc,            \* position of the one call of execute
    petal_file,    \* the PetalFile handed to execute (its steps)
    dry_run,       \* the dry_run argument of execute
    idx,           \* position of the for loop over petal_file.steps (1-based)
    attempt,       \* tenacity's attempt number inside _execute_with_retry
    state,         \* WorkflowState.state
    step_status,   \* WorkflowState.step_status
    step_results,  \* WorkflowState.step_results
    current_step,  \* WorkflowState.current_step
    exc,           \* the exception travelling from _execute_step to execute
    report,        \* what execute returned (<<>> until it returns)
    invocations,   \* spy: calls of tool.execute, per step position
    failures,      \* spy: calls of tool.execute that raised, per step position
    completed_log  \* spy: <<id, result>> of each step that completed, in order

vars == <<pc, petal_file, dry_run, idx, attempt, state, step_status,
          step_results, current_step, exc, report, invocations, failures,
          completed_log>>

\* The other components of the package, each with a specification of its own
VARIABLES
    clock,                \* datetime.now(UTC), in ticks
    runs,                 \* the calls of execute so far, as set up by lines 48-61
    directories,          \* the run directories on disk
    tools,                \* ToolRegistry._tools
    step_config_classes,  \* ToolRegistry._step_config_classes
    registering,          \* per thread: where it is in register_tool, and its tool
    registered_log,       \* spy: the tools in the order they were stored in _tools
    petal,                \* the models.Petal handed to PetalValidator.validate
    validation,           \* what the calls of validate returned, in order
    if_expression,        \* the expression text handed to the evaluator
    compiled_expressions, \* ExpressionParser._compiled_expressions
    parse_outcome,        \* what the latest call of parse or validate did
    step_data,            \* the mapping yaml.safe_load gave for one step
    loaded,               \* what the latest call of parse_string did
    retry_config,         \* the Retry handed to _execute_with_retry
    attempts_made,        \* tenacity's retry_state.attempt_number
    sleeps,               \* spy: the waits tenacity slept, in order
    template_str,         \* the template handed to the template engine
    template_outcome      \* what the latest call on the template did

runVars == <<clock, runs, directories>>
registryVars == <<tools, step_config_classes, registering, registered_log>>
validatorVars == <<petal, validation>>
parserVars == <<if_expression, compiled_expressions, parse_outcome>>
loaderVars == <<step_data, loaded>>
retryVars == <<retry_config, attempts_made, sleeps>>
templateVars == <<template_str, template_outcome>>
restVars == <<loaderVars, retryVars, templateVars>>

\* what PetalExecutor never touches
elsewhere == <<runVars, registryVars, validatorVars, parserVars, restVars>>

----------------------------------------------------------------------------
(* Bounds of the model *)

MaxSteps == 2       \* steps per workflow
MaxAttempts == 3    \* largest retry.max_attempts drawn (the field allows 1..10)
TicksPerSecond == 2 \* clock ticks in one second of datetime.now
MaxTicks == 4       \* the clock stops here
MaxRuns == 3        \* calls of execute set up
MaxThreads == 2     \* threads calling register_tool
MaxRegistrations == 2   \* calls of register_tool after the import
MaxPetalSteps == 3  \* steps of a Petal handed to the validator
MaxValidations == 2  \* calls of validate on one Petal
MaxDepth == 2        \* operators, calls and literals nested in an expression
MaxSpaces == 2       \* blanks written between two tokens of an expression
MaxSegments == 3     \* interpolations, words and line ends in one template

----------------------------------------------------------------------------
(* Python values *)

None == "None"
EmptyDict == <<>>

\* None where the other values are objects (records)
NoObject == <<>>

\* d[k] = v on a dict
DictSet(d, k, v) == [x \in (DOMAIN d) \cup {k} |-> IF x = k THEN v ELSE d[x]]

\* variant: the keys already in d keep their value
DictUpdate_keep_first(d, o) ==
    [x \in (DOMAIN d) \cup (DOMAIN o) |-> IF x \in DOMAIN d THEN d[x] ELSE o[x]]

\* d.update(o): keys of o overwrite, the other keys of d stay
DictUpdate(d, o) ==
    [x \in (DOMAIN d) \cup (DOMAIN o) |-> IF x \in DOMAIN o THEN o[x] ELSE d[x]]

----------------------------------------------------------------------------
(* enums.py *)

PENDING == "pending"
RUNNING == "running"
COMPLETED == "completed"
FAILED == "failed"
SKIPPED == "skipped"
RETRYING == "retrying"
StepStatus == {PENDING, RUNNING, COMPLETED, FAILED, SKIPPED, RETRYING}

IfErrorPolicy == {"fail", "skip", "retry"}

----------------------------------------------------------------------------
(* The tool registry: the two built-in tools registered at import and one   *)
(* custom tool registered through register_custom_tool.                     *)

tool_registry == {"debug.echo", "python.eval", "custom.tool"}

\* variant: a lookup that never misses
get_tool_any(tool_name) == tool_name

\* ToolRegistry.get_tool: the tool stored under the exact name, or None
get_tool(tool_name) == IF tool_name \in tool_registry THEN tool_name ELSE None

----------------------------------------------------------------------------
(* Workflows: models_strict.PetalFile and its step configs *)

StepId(i) == "s" \o ToString(i)
StepIds == {StepId(i) : i \in 1..MaxSteps}

\* step.uses as drawn: a registered custom tool, or a name nobody registered
UsesNames == {"custom.tool", "unknown.tool"}

\* Retry: absent (<<>>) or one config, max_attempts the least allowed or the
\* largest drawn
RetryConfigs == {<<>>} \cup {<<[max_attempts |-> n]>> : n \in {1, MaxAttempts}}

\* guards: absent, or an expression of the if: language
Guards == {"1 == 1", "1 == 2"}

\* ExpressionEvaluator.evaluate on the guards drawn
evaluate(expression, context) == expression = "1 == 1"

\* The step configs drawn for position i. A plain step has no guard and no
\* declared dependency; a declared step may carry a guard (when) and the
\* dependencies the workflow definition declares for it (needs, a field of
\* models.StepBase; BaseStepConfig has no such field and the executor reads
\* neither).
StepConfigs(declared, i) ==
    [id : {StepId(i)}, uses : UsesNames, if_error : IfErrorPolicy,
     retry : RetryConfigs,
     when : IF declared THEN {None} \cup Guards ELSE {None},
     needs : IF declared
               THEN {{}} \cup {{s} : s \in StepIds \ {StepId(i)}}
               ELSE {{}}]

\* the files of n steps
RECURSIVE FilesOf(_, _)
FilesOf(declared, n) ==
    IF n = 0 THEN {<<>>}
    ELSE {Append(w, s) : w \in FilesOf(declared, n - 1),
                         s \in StepConfigs(declared, n)}

WorkflowsOf(declared) == UNION {FilesOf(declared, n) : n \in 1..MaxSteps}

\* the needs graph of a valid workflow: every id needed is declared, no cycle
NeedsDeclared(w) ==
    \A i \in DOMAIN w : w[i].needs \subseteq {w[j].id : j \in DOMAIN w}

NeedsAcyclic(w) ==
    \E rank \in [DOMAIN w -> DOMAIN w] :
        \A i, j \in DOMAIN w : w[j].id \in w[i].needs => rank[j] < rank[i]

Workflows == WorkflowsOf(FALSE)
DeclaredWorkflows ==
    {w \in WorkflowsOf(TRUE) : NeedsDeclared(w) /\ NeedsAcyclic(w)}

----------------------------------------------------------------------------
(* What a tool's execute may hand back *)

Unsupported == "<object>"   \* a value that is no str/int/float/bool/list/dict/None

ToolResults ==
    {("a" :> "v1"), ("a" :> "v2" @@ "b" :> "v1"), ("b" :> Unsupported)}

\* WorkflowState._validate_state_values: TRUE when it returns, FALSE when it raises
validate_state_values(data) == \A k \in DOMAIN data : data[k] # Unsupported

----------------------------------------------------------------------------
(* WorkflowState *)

\* variant: the status is stored, current_step is left unset
set_step_status_no_current(ss, step_id, status) ==
    <<DictSet(ss, step_id, status), None>>

\* WorkflowState.set_step_status: <<step_status, current_step>> afterwards
set_step_status(ss, step_id, status) ==
    <<DictSet(ss, step_id, status), IF status = RUNNING THEN step_id ELSE None>>

\* WorkflowState.update: <<state, step_results>> afterwards
update(st, sr, step_id, outputs) ==
    <<DictUpdate(st, outputs), DictSet(sr, step_id, outputs)>>

----------------------------------------------------------------------------
(* A Python dict that remembers insertion order: a sequence of <<key, value>> *)

dict_has(d, k) == \E i \in DOMAIN d : d[i][1] = k

dict_index(d, k) == CHOOSE i \in DOMAIN d : d[i][1] = k /\ \A j \in 1..(i - 1) : d[j][1] # k

\* d.get(k)
dict_get(d, k) == IF dict_has(d, k) THEN d[dict_index(d, k)][2] ELSE NoObject

\* variant: a new entry on every store
dict_setitem_append(d, k, v) == Append(d, <<k, v>>)

\* d[k] = v: the entry of k gets the value, a new key goes to the end
dict_setitem(d, k, v) ==
    IF dict_has(d, k) THEN [d EXCEPT ![dict_index(d, k)] = <<k, v>>]
    ELSE Append(d, <<k, v>>)

\* list(d.keys())
dict_keys(d) == [i \in DOMAIN d |-> d[i][1]]

----------------------------------------------------------------------------
(* ToolRegistry (tool_registry.py): the tools are objects with a name and a *)
(* step_config_class; obj tells two tools of equal name and class apart.    *)

DebugEchoTool ==
    [obj |-> "DebugEchoTool()", name |-> "debug.echo",
     step_config_class |-> "DebugEchoStepConfig"]

PythonEvalTool ==
    [obj |-> "PythonEvalTool()", name |-> "python.eval",
     step_config_class |-> "PythonEvalStepConfig"]

\* _auto_discover_tools: what the import registers, in this order
BuiltinTools == <<DebugEchoTool, PythonEvalTool>>

\* the tools handed to register_tool later: two of one name with different
\* config classes, one whose name differs in case only, one that takes a
\* built-in's name
CustomTools ==
    {[obj |-> "t1", name |-> "custom.tool", step_config_class |-> "ConfigA"],
     [obj |-> "t2", name |-> "custom.tool", step_config_class |-> "ConfigB"],
     [obj |-> "t3", name |-> "Custom.Tool", step_config_class |-> "ConfigA"],
     [obj |-> "t4", name |-> "debug.echo", step_config_class |-> "ConfigB"]}

Threads == 1..MaxThreads

InitRegistry ==
    /\ tools = [i \in 1..Len(BuiltinTools) |->
                  <<BuiltinTools[i].name, BuiltinTools[i]>>]
    /\ step_config_classes = [i \in 1..Len(BuiltinTools) |->
                  <<BuiltinTools[i].name, BuiltinTools[i].step_config_class>>]
    /\ registering = [t \in Threads |-> [pc |-> "idle", tool |-> NoObject]]
    /\ registered_log = BuiltinTools

----------------------------------------------------------------------------
(* The other components before their first call *)

InitRuns ==
    /\ clock = 0
    /\ runs = <<>>
    /\ directories = {}

\* a Petal without steps; nothing validated yet
InitValidator ==
    /\ petal = [steps |-> <<>>]
    /\ validation = <<>>

\* the empty string as expression; an empty cache; nothing parsed yet
InitParser ==
    /\ if_expression = [source |-> [node |-> "Blank"], spacing |-> 0]
    /\ compiled_expressions = <<>>
    /\ parse_outcome = <<>>

\* no step mapping read yet
InitLoader ==
    /\ step_data = <<>>
    /\ loaded = <<>>

\* _execute_with_retry not called yet
InitRetry ==
    /\ retry_config = <<>>
    /\ attempts_made = 0
    /\ sleeps = <<>>

\* the empty template; no call yet
InitTemplate ==
    /\ template_str = <<>>
    /\ template_outcome = <<>>

----------------------------------------------------------------------------
(* PetalExecutor *)

Step == petal_file[idx]

CountsZero == [i \in 1..MaxSteps |-> 0]

Init ==
    /\ pc = "idle"
    /\ petal_file = <<>>
    /\ dry_run = FALSE
    /\ idx = 0
    /\ attempt = 0
    /\ state = EmptyDict
    /\ step_status = EmptyDict
    /\ step_results = EmptyDict
    /\ current_step = None
    /\ exc = None
    /\ report = <<>>
    /\ invocations = CountsZero
    /\ failures = CountsZero
    /\ completed_log = <<>>
    /\ InitRuns
    /\ InitRegistry
    /\ InitValidator
    /\ InitParser
    /\ InitLoader
    /\ InitRetry
    /\ InitTemplate

\* execute, up to the dry_run test: a fresh WorkflowState for this run
Execute(W) ==
    /\ UNCHANGED elsewhere
    /\ pc = "idle"
    /\ \E pf \in W, dr \in BOOLEAN :
         /\ petal_file' = pf
         /\ dry_run' = dr
         /\ pc' = IF dr THEN "dry_run" ELSE "loop"
    /\ idx' = 1
    /\ state' = EmptyDict
    /\ step_status' = EmptyDict
    /\ step_results' = EmptyDict
    /\ current_step' = None
    /\ UNCHANGED <<attempt, exc, report, invocations, failures, completed_log>>

\* _dry_run: one step_info per step of the file, in the order of the file
step_info(step) ==
    [id |-> step.id, uses |-> step.uses, when |-> step.when,
     if_error |-> step.if_error, retry |-> step.retry]

\* variant: a plan of the steps whose tool is registered
dry_run_steps_registered(steps) ==
    LET known == SelectSeq(steps, LAMBDA st : st.uses \in tool_registry)
    IN  [i \in 1..Len(known) |-> step_info(known[i])]

dry_run_steps(steps) == [i \in 1..Len(steps) |-> step_info(steps[i])]

DryRun ==
    /\ UNCHANGED elsewhere
    /\ pc = "dry_run"
    /\ report' = [status |-> "dry_run",
                  steps |-> dry_run_steps(petal_file)]
    /\ pc' = "returned"
    /\ UNCHANGED <<petal_file, dry_run, idx, attempt, state, step_status,
                   step_results, current_step, exc, invocations, failures,
                   completed_log>>

\* _execute_step up to the tool call: status running, then the registry lookup
StartStep ==
    /\ UNCHANGED elsewhere
    /\ pc = "loop"
    /\ idx <= Len(petal_file)
    /\ LET s == set_step_status(step_status, Step.id, RUNNING) IN
         /\ step_status' = s[1]
         /\ current_step' = s[2]
    /\ IF get_tool(Step.uses) = None
         THEN /\ exc' = "Tool not found: " \o Step.uses
              /\ pc' = "except"
         ELSE /\ exc' = None
              /\ pc' = "call"
    /\ attempt' = 1
    /\ UNCHANGED <<petal_file, dry_run, idx, state, step_results, report,
                   invocations, failures, completed_log>>

\* variant: the loop stays at the step it has just left
next_step_same(position) == position

\* execute's `for step in petal_file.steps`: the position after this one
next_step(position) == position + 1

\* variant: one attempt too many
stop_after_attempt_late(max_attempts, attempt_number) == attempt_number > max_attempts

\* tenacity's stop_after_attempt: TRUE when the attempt just failed was the last
stop_after_attempt(max_attempts, attempt_number) == attempt_number >= max_attempts

\* tool.execute raises: _retry_execute tries again or gives up
ToolRaises ==
    /\ UNCHANGED elsewhere
    /\ pc = "call"
    /\ Step.uses # PythonEvalTool.name
    /\ invocations' = [invocations EXCEPT ![idx] = @ + 1]
    /\ failures' = [failures EXCEPT ![idx] = @ + 1]
    /\ IF Step.retry # <<>>
          /\ ~stop_after_attempt(Step.retry[1].max_attempts, attempt)
         THEN /\ attempt' = attempt + 1
              /\ pc' = "call"
              /\ exc' = None
         ELSE /\ attempt' = attempt
              /\ pc' = "except"
              /\ exc' = IF Step.retry # <<>> THEN "RetryError" ELSE "ToolError"
    /\ UNCHANGED <<petal_file, dry_run, idx, state, step_status, step_results,
                   current_step, report, completed_log>>

\* tool.execute returns: update_from_tool_result, then status completed
ToolReturns ==
    /\ UNCHANGED elsewhere
    /\ pc = "call"
    /\ Step.uses # PythonEvalTool.name
    /\ invocations' = [invocations EXCEPT ![idx] = @ + 1]
    /\ \E result \in ToolResults :
         IF validate_state_values(result)
           THEN /\ LET u == update(state, step_results, Step.id, result) IN
                     /\ state' = u[1]
                     /\ step_results' = u[2]
                /\ LET s == set_step_status(step_status, Step.id, COMPLETED) IN
                     /\ step_status' = s[1]
                     /\ current_step' = s[2]
                /\ completed_log' =
                       Append(completed_log, [id |-> Step.id, result |-> result])
                /\ idx' = next_step(idx)
                /\ pc' = "loop"
                /\ exc' = None
           ELSE /\ exc' = "Unsupported state value type"
                /\ pc' = "except"
                /\ UNCHANGED <<state, step_results, step_status, current_step,
                               completed_log, idx>>
    /\ UNCHANGED <<petal_file, dry_run, attempt, report, failures>>

\* variant: the fail policy handled like skip
error_policy_fail_skips(if_error) ==
    IF if_error \in {"fail", "skip"} THEN "skip" ELSE "raise"

\* variant: no policy skips
error_policy_never_skips(if_error) == "raise"

\* execute's except clause: what the step's if_error policy asks for
error_policy(if_error) ==
    IF if_error = "fail" THEN "raise"
    ELSE IF if_error = "skip" THEN "skip"
    ELSE IF if_error = "retry" THEN "raise"
    ELSE "raise"

HandleError ==
    /\ UNCHANGED elsewhere
    /\ pc = "except"
    /\ IF error_policy(Step.if_error) = "skip"
         THEN /\ LET s == set_step_status(step_status, Step.id, SKIPPED) IN
                   /\ step_status' = s[1]
                   /\ current_step' = s[2]
              /\ idx' = next_step(idx)
              /\ pc' = "loop"
              /\ exc' = None
         ELSE /\ pc' = "raised"
              /\ UNCHANGED <<step_status, current_step, idx, exc>>
    /\ UNCHANGED <<petal_file, dry_run, attempt, state, step_results, report,
                   invocations, failures, completed_log>>

\* the loop is over: the report of a completed run
Finish ==
    /\ UNCHANGED elsewhere
    /\ pc = "loop"
    /\ idx > Len(petal_file)
    /\ report' = [status |-> "completed", state |-> state,
                  step_results |-> step_results]
    /\ pc' = "returned"
    /\ UNCHANGED <<petal_file, dry_run, idx, attempt, state, step_status,
                   step_results, current_step, exc, invocations, failures,
                   completed_log>>

----------------------------------------------------------------------------
(* The python.eval tool (tools/python_eval.py) under the executor *)

\* an expression that throws a BaseException into a generator
ThrowBaseException ==
    "(x for x in ()).throw([c for c in ().__class__.__base__.__subclasses__() if c.__name__ == 'BaseException'][0])"

\* the expressions drawn for step.expression
EvalExpressions == {"2 + 2", "(1, 2)", "1 / 0", "a", ThrowBaseException}

\* eval(expression, safe_globals, {}): a value, an exception that is an
\* Exception, or one that is only a BaseException
py_eval(expr, safe_globals) ==
    IF expr = "2 + 2" THEN [kind |-> "value", value |-> "4"]
    ELSE IF expr = "(1, 2)" THEN [kind |-> "value", value |-> Unsupported]
    ELSE IF expr = "1 / 0"
      THEN [kind |-> "Exception", message |-> "division by zero"]
    ELSE IF expr = "a"
      THEN IF "a" \in DOMAIN safe_globals
             THEN [kind |-> "value", value |-> safe_globals["a"]]
             ELSE [kind |-> "Exception", message |-> "name 'a' is not defined"]
    ELSE [kind |-> "BaseException", message |-> ""]

\* PythonEvalTool.execute: the globals are the (empty) builtins and the
\* workflow state; `except Exception` turns an Exception into the error
\* payload and lets any other exception through
PythonEvalTool_execute(expr, workflow_state) ==
    LET r == py_eval(expr, workflow_state) IN
    IF r.kind = "value"
      THEN [raised |-> FALSE,
            result |-> ("result" :> r.value @@ "expression" :> expr)]
    ELSE IF r.kind = "Exception"
      THEN [raised |-> FALSE,
            result |-> ("error" :> r.message @@ "expression" :> expr)]
    ELSE [raised |-> TRUE, result |-> EmptyDict]

\* _execute_step from the tool call on, for a python.eval step: a payload is
\* handled like any tool result; an exception that is no Exception passes
\* tenacity (it retries on Exception only) and execute's `except Exception`
PythonEval ==
    /\ UNCHANGED elsewhere
    /\ pc = "call"
    /\ Step.uses = PythonEvalTool.name
    /\ invocations' = [invocations EXCEPT ![idx] = @ + 1]
    /\ LET out == PythonEvalTool_execute(Step.expression, state) IN
         IF out.raised
           THEN /\ failures' = [failures EXCEPT ![idx] = @ + 1]
                /\ exc' = "BaseException"
                /\ pc' = "raised"
                /\ UNCHANGED <<state, step_results, step_status, current_step,
                               completed_log, idx>>
           ELSE /\ failures' = failures
                /\ IF validate_state_values(out.result)
                     THEN /\ LET u == update(state, step_results, Step.id, out.result) IN
                               /\ state' = u[1]
                               /\ step_results' = u[2]
                          /\ LET st == set_step_status(step_status, Step.id, COMPLETED) IN
                               /\ step_status' = st[1]
                               /\ current_step' = st[2]
                          /\ completed_log' =
                                 Append(completed_log, [id |-> Step.id, result |-> out.result])
                          /\ idx' = next_step(idx)
                          /\ pc' = "loop"
                          /\ exc' = None
                     ELSE /\ exc' = "Unsupported state value type"
                          /\ pc' = "except"
                          /\ UNCHANGED <<state, step_results, step_status,
                                         current_step, completed_log, idx>>
    /\ UNCHANGED <<petal_file, dry_run, attempt, report>>

\* PythonEvalStepConfig for position i
PythonEvalStepConfigs(i) ==
    [id : {StepId(i)}, uses : {PythonEvalTool.name}, if_error : IfErrorPolicy,
     retry : RetryConfigs, when : {None}, needs : {{}},
     expression : EvalExpressions]

\* files whose steps are python.eval steps or plain steps
RECURSIVE EvalFilesOf(_)
EvalFilesOf(n) ==
    IF n = 0 THEN {<<>>}
    ELSE {Append(w, st) : w \in EvalFilesOf(n - 1),
                          st \in PythonEvalStepConfigs(n) \cup StepConfigs(FALSE, n)}

\* the files with a python.eval step
EvalWorkflows(max_steps) ==
    {w \in UNION {EvalFilesOf(n) : n \in 1..max_steps} :
        \E i \in DOMAIN w : w[i].uses = PythonEvalTool.name}

Run == DryRun \/ StartStep \/ ToolRaises \/ ToolReturns \/ HandleError \/ Finish

Next == Execute(Workflows) \/ Run

Spec == Init /\ [][Next]_vars

NextDeclared == Execute(DeclaredWorkflows) \/ Run

SpecDeclared == Init /\ [][NextDeclared]_vars

NextEval == Execute(EvalWorkflows(MaxSteps)) \/ Run \/ PythonEval

SpecEval == Init /\ [][NextEval]_vars

----------------------------------------------------------------------------
(* execute, lines 48-61, over several calls: run_id, run_dir and the        *)
(* WorkflowState of each call. The clock runs in ticks shorter than a       *)
(* second; the calls may be one after the other or overlap, the set-up of   *)
(* a call reads the clock once.                                            *)

\* the run_dir argument of execute (None: Path.cwd() / "runs")
BaseDirs == {None, "out"}

\* strftime("%Y%m%d_%H%M%S"): the time of the tick, cut to whole seconds
strftime(t) == ToString(t \div TicksPerSecond)

\* line 49
run_id_at(t) == "run_" \o strftime(t)

\* lines 50-52: the directory of the run
run_path(base, run_id) ==
    IF base = None THEN "cwd/runs/" \o run_id ELSE base \o "/" \o run_id

\* lines 48-61 of one call: run_id from the clock, mkdir(parents=True,
\* exist_ok=True), a new WorkflowState object
ExecuteSetUp ==
    /\ Len(runs) < MaxRuns
    /\ \E base \in BaseDirs :
         LET run_id == run_id_at(clock)
             run_dir == run_path(base, run_id)
         IN  /\ directories' = directories \cup {run_dir}
             /\ runs' = Append(runs, [base |-> base, run_id |-> run_id,
                                      run_dir |-> run_dir,
                                      state |-> Len(runs) + 1])
    /\ UNCHANGED <<clock, vars, registryVars, validatorVars, parserVars, restVars>>

\* time passes
Tick ==
    /\ clock < MaxTicks
    /\ clock' = clock + 1
    /\ UNCHANGED <<runs, directories, vars, registryVars, validatorVars, parserVars, restVars>>

NextRuns == ExecuteSetUp \/ Tick

SpecRuns == Init /\ [][NextRuns]_runVars

----------------------------------------------------------------------------
(* ToolRegistry.register_tool called from several threads: the two stores   *)
(* of lines 35 and 36 are separate steps, each atomic, with no lock.        *)

\* register_tool calls begun after the import
RegistrationsBegun ==
    (Len(registered_log) - Len(BuiltinTools))
      + Cardinality({t \in Threads : registering[t].pc = "store_tool"})

\* lines 32-33: the call reads the tool's name and step_config_class
RegisterTool(t) ==
    /\ registering[t].pc = "idle"
    /\ RegistrationsBegun < MaxRegistrations
    /\ \E tool \in CustomTools :
         registering' = [registering EXCEPT ![t] = [pc |-> "store_tool", tool |-> tool]]
    /\ UNCHANGED <<tools, step_config_classes, registered_log, vars, runVars,
                   validatorVars, parserVars, restVars>>

\* line 35: self._tools[tool_name] = tool
StoreTool(t) ==
    /\ registering[t].pc = "store_tool"
    /\ tools' = dict_setitem(tools, registering[t].tool.name, registering[t].tool)
    /\ registered_log' = Append(registered_log, registering[t].tool)
    /\ registering' = [registering EXCEPT ![t].pc = "store_class"]
    /\ UNCHANGED <<step_config_classes, vars, runVars, validatorVars, parserVars, restVars>>

\* line 36: self._step_config_classes[tool_name] = step_config_class
StoreClass(t) ==
    /\ registering[t].pc = "store_class"
    /\ step_config_classes' =
           dict_setitem(step_config_classes, registering[t].tool.name,
                        registering[t].tool.step_config_class)
    /\ registering' = [registering EXCEPT ![t] = [pc |-> "idle", tool |-> NoObject]]
    /\ UNCHANGED <<tools, registered_log, vars, runVars, validatorVars, parserVars, restVars>>

\* ToolRegistry.get_tool on the registry as it is now
registry_get_tool(tool_name) == dict_get(tools, tool_name)

\* ToolRegistry.get_step_config_class
get_step_config_class(tool_name) == dict_get(step_config_classes, tool_name)

\* ToolRegistry.list_tools
list_tools == dict_keys(tools)

NextRegistry == \E t \in Threads : RegisterTool(t) \/ StoreTool(t) \/ StoreClass(t)

SpecRegistry == Init /\ [][NextRegistry]_registryVars

----------------------------------------------------------------------------
(* The workflow model of the validator: models.Petal, StepBase, IODecl.     *)
(* Dicts are sequences of <<key, value>>; None is NoObject where the other  *)
(* values are dicts, None where they are strings.                           *)

Elements(seq) == {seq[i] : i \in DOMAIN seq}

RECURSIVE Concat(_)
Concat(seqs) == IF seqs = <<>> THEN <<>> ELSE Head(seqs) \o Concat(Tail(seqs))

\* Python values of the types a YAML document yields: the type, the value
\* as written, and its number where it is an int
PyStr(v) == [type |-> "str", value |-> v, number |-> 0]
PyInt(n) == [type |-> "int", value |-> ToString(n), number |-> n]
PyBool(v) == [type |-> "bool", value |-> v, number |-> IF v = "True" THEN 1 ELSE 0]
PyList(v) == [type |-> "list", value |-> v, number |-> 0]

IODecl(type, from_) == [type |-> type, from_ |-> from_]

StepBase(id, uses, needs, inputs, outputs, cache, resources, adapter) ==
    [id |-> id, uses |-> uses, needs |-> needs, inputs |-> inputs,
     outputs |-> outputs, cache |-> cache, resources |-> resources,
     adapter |-> adapter]

PetalStepId(i) == "p" \o ToString(i)
PetalStepIds == {PetalStepId(i) : i \in 1..MaxPetalSteps}

\* an id no step has
GhostId == "ghost"

\* steps that differ in needs only: nothing, one id (its own, another step's
\* or a missing one), or the ids of two other steps in either order
DagSteps(i) ==
    {StepBase(PetalStepId(i), "shell", needs, <<>>, <<>>, NoObject, NoObject, None) :
        needs \in {<<>>} \cup {<<a>> : a \in PetalStepIds \cup {GhostId}}
                  \cup {<<x[1], x[2]>> : x \in {y \in PetalStepIds \X PetalStepIds :
                            y[1] # y[2] /\ PetalStepId(i) \notin {y[1], y[2]}}}}

\* steps that declare the output x or not, consume outputs.x or not, and
\* need no step, the step before or the step after (the last step is before
\* the first)
IoSteps(i) ==
    {StepBase(PetalStepId(i), "shell", needs, inputs, outputs, NoObject, NoObject, None) :
        needs \in {<<>>} \cup {<<PetalStepId(j)>> : j \in
                    {(i % MaxPetalSteps) + 1, ((i + MaxPetalSteps - 2) % MaxPetalSteps) + 1}
                    \ {i}},
        inputs \in {<<>>, << <<"i", IODecl("str", "outputs.x")>> >>},
        outputs \in {<<>>, << <<"x", IODecl("str", None)>> >>}}

\* steps with one field out of shape each, and one with all of them
ShapeSteps(i) ==
    LET ok == StepBase(PetalStepId(i), "shell", <<>>, <<>>, <<>>, NoObject, NoObject, None)
        good_resources == << <<"cpu", PyStr("0.5")>>, <<"mem", PyStr("512M")>>,
                             <<"gpu", PyInt(1)>>, <<"network", PyBool("True")>> >>
        bad_resources == << <<"cpu", PyStr("two")>>, <<"mem", PyStr("1GB")>>,
                            <<"gpu", PyInt(-1)>>, <<"network", PyStr("yes")>> >>
    IN  {ok,
         [ok EXCEPT !.needs = <<GhostId>>],
         [ok EXCEPT !.outputs = << <<"x", IODecl(None, None)>> >>],
         [ok EXCEPT !.inputs = << <<"i", IODecl(None, "vars.x")>> >>],
         [ok EXCEPT !.cache = << <<"policy", PyStr("auto")>> >>],
         [ok EXCEPT !.cache = << <<"policy", PyStr("sometimes")>> >>],
         [ok EXCEPT !.cache = << <<"policy", PyList("['auto']")>> >>],
         [ok EXCEPT !.resources = good_resources],
         [ok EXCEPT !.resources = bad_resources],
         [ok EXCEPT !.resources = << <<"cpu", PyBool("True")>>, <<"mem", PyInt(512)>>,
                                    <<"gpu", PyBool("True")>> >>],
         [ok EXCEPT !.adapter = "process"],
         [ok EXCEPT !.uses = "llm", !.adapter = "docker"],
         [ok EXCEPT !.uses = "human", !.adapter = "process"],
         [ok EXCEPT !.needs = <<GhostId>>,
                    !.outputs = << <<"x", IODecl(None, None)>> >>,
                    !.cache = << <<"policy", PyStr("sometimes")>> >>,
                    !.resources = bad_resources,
                    !.uses = "llm", !.adapter = "docker"]}

StepsOfFamily(family, i) ==
    IF family = "dag" THEN DagSteps(i)
    ELSE IF family = "io" THEN IoSteps(i)
    ELSE ShapeSteps(i)

RECURSIVE StepListsOf(_, _)
StepListsOf(family, n) ==
    IF n = 0 THEN {<<>>}
    ELSE {Append(w, st) : w \in StepListsOf(family, n - 1),
                          st \in StepsOfFamily(family, n)}

\* the Petals of a family, ids unique (Petal.__post_init__)
Petals(family) ==
    {[steps |-> w] : w \in UNION {StepListsOf(family, n) : n \in 1..MaxPetalSteps}}

----------------------------------------------------------------------------
(* PetalValidator (validator.py). An error string is modelled by the record *)
(* of the check that wrote it and the values formatted into it.             *)

\* {step.id: step for step in petal.steps}: the last step of each id
step_lookup_of(steps) ==
    [id \in {steps[i].id : i \in DOMAIN steps} |->
        steps[CHOOSE i \in DOMAIN steps :
                 steps[i].id = id /\ \A j \in DOMAIN steps : j > i => steps[j].id # id]]

\* lines 63-68
missing_deps(steps, step_lookup) ==
    Concat([i \in DOMAIN steps |->
        Concat([k \in DOMAIN steps[i].needs |->
            IF steps[i].needs[k] \notin DOMAIN step_lookup
              THEN <<[check |-> "missing dependency", step |-> steps[i].id,
                      needed |-> steps[i].needs[k]]>>
              ELSE <<>>])])

\* path.index(step_id)
path_index(path, step_id) ==
    CHOOSE i \in DOMAIN path : path[i] = step_id /\ \A j \in 1..(i - 1) : path[j] # step_id

\* variant: the whole path walked
cycle_path_from_root(path, step_id) == path \o <<step_id>>

\* line 87: path[path.index(step_id):] + [step_id]
cycle_path(path, step_id) ==
    SubSeq(path, path_index(path, step_id), Len(path)) \o <<step_id>>

\* dfs of _detect_cycles on the traversal state [visited, rec_stack, errors]
RECURSIVE dfs(_, _, _, _), dfs_needs(_, _, _, _, _)
dfs(step_lookup, step_id, path, st) ==
    IF step_id \in st.rec_stack
      THEN [st EXCEPT !.errors =
              Append(@, [check |-> "cycle", path |-> cycle_path(path, step_id)])]
    ELSE IF step_id \in st.visited THEN st
    ELSE LET entered == [st EXCEPT !.visited = @ \cup {step_id},
                                   !.rec_stack = @ \cup {step_id}]
             done == IF step_id \in DOMAIN step_lookup
                       THEN dfs_needs(step_lookup, step_lookup[step_id].needs, 1,
                                      path \o <<step_id>>, entered)
                       ELSE entered
         IN  [done EXCEPT !.rec_stack = @ \ {step_id}]

\* lines 99-100: for needed_step in step.needs, from the k-th on
dfs_needs(step_lookup, needs, k, path, st) ==
    IF k > Len(needs) THEN st
    ELSE dfs_needs(step_lookup, needs, k + 1, path,
                   dfs(step_lookup, needs[k], path, st))

\* lines 105-107: for step in steps, from the i-th on
RECURSIVE dfs_from_each(_, _, _, _)
dfs_from_each(steps, step_lookup, i, st) ==
    IF i > Len(steps) THEN st
    ELSE dfs_from_each(steps, step_lookup, i + 1,
                       IF steps[i].id \in st.visited THEN st
                       ELSE dfs(step_lookup, steps[i].id, <<>>, st))

detect_cycles(steps, step_lookup) ==
    dfs_from_each(steps, step_lookup, 1,
                  [visited |-> {}, rec_stack |-> {}, errors |-> <<>>]).errors

validate_dag(p) ==
    LET step_lookup == step_lookup_of(p.steps)
    IN  missing_deps(p.steps, step_lookup) \o detect_cycles(p.steps, step_lookup)

\* the <<output_name, step.id>> of lines 117-118, in the order of the loops
declared_outputs(steps) ==
    Concat([i \in DOMAIN steps |->
        [k \in DOMAIN steps[i].outputs |-> <<steps[i].outputs[k][1], steps[i].id>>]])

\* lines 116-124 from the i-th declaration on: [output_producers, errors]
RECURSIVE build_output_producers(_, _, _)
build_output_producers(decls, i, acc) ==
    IF i > Len(decls) THEN acc
    ELSE LET output_name == decls[i][1]
             step_id == decls[i][2]
         IN  build_output_producers(decls, i + 1,
               IF dict_has(acc.output_producers, output_name)
                 THEN [acc EXCEPT !.errors =
                         Append(@, [check |-> "multiple producers",
                                    output |-> output_name,
                                    first |-> dict_get(acc.output_producers, output_name),
                                    second |-> step_id])]
                 ELSE [acc EXCEPT !.output_producers =
                         dict_setitem(@, output_name, step_id)])

\* str.startswith("outputs.") on the from_ strings drawn
startswith_outputs(from_) == from_ \in {"outputs.x"}

\* from_.split(".", 1)[1] on the from_ strings drawn
split_after_dot(from_) ==
    IF from_ \in {"outputs.x", "vars.x"} THEN "x" ELSE from_

\* variant: every dependency counts as declared
declares_dependency_always(step, producer_step) == TRUE

\* line 138: producer_step in step.needs
declares_dependency(step, producer_step) == producer_step \in Elements(step.needs)

\* lines 128-141 for one input of one step
input_dependency_errors(step, input, output_producers) ==
    LET input_name == input[1]
        input_decl == input[2]
    IN  IF input_decl.from_ # None /\ startswith_outputs(input_decl.from_)
          THEN LET output_name == split_after_dot(input_decl.from_) IN
               IF ~dict_has(output_producers, output_name)
                 THEN <<[check |-> "undefined output", step |-> step.id,
                         input |-> input_name, output |-> output_name]>>
               ELSE IF ~declares_dependency(step, dict_get(output_producers, output_name))
                 THEN <<[check |-> "undeclared dependency", step |-> step.id,
                         output |-> output_name,
                         producer |-> dict_get(output_producers, output_name)]>>
               ELSE <<>>
          ELSE <<>>

validate_inputs_outputs(p) ==
    LET built == build_output_producers(declared_outputs(p.steps), 1,
                     [output_producers |-> <<>>, errors |-> <<>>])
    IN  built.errors \o
        Concat([i \in DOMAIN p.steps |->
            Concat([k \in DOMAIN p.steps[i].inputs |->
                input_dependency_errors(p.steps[i], p.steps[i].inputs[k],
                                        built.output_producers)])])

validate_types(p) ==
    Concat([i \in DOMAIN p.steps |->
        Concat([k \in DOMAIN p.steps[i].inputs |->
            IF p.steps[i].inputs[k][2].type = None
              THEN <<[check |-> "input type", step |-> p.steps[i].id,
                      name |-> p.steps[i].inputs[k][1]]>>
              ELSE <<>>])
        \o
        Concat([k \in DOMAIN p.steps[i].outputs |->
            IF p.steps[i].outputs[k][2].type = None
              THEN <<[check |-> "output type", step |-> p.steps[i].id,
                      name |-> p.steps[i].outputs[k][1]]>>
              ELSE <<>>])])

\* cpu.replace(".", "").isdigit() on the strings drawn
isdigit_without_dots(v) == v \in {"0.5"}

\* re.match(r"^\d+[KMGT]i?$", mem) on the strings drawn
matches_mem_format(v) == v \in {"512M"}

resource_error(step, field) ==
    <<[check |-> "resource", step |-> step.id, field |-> field]>>

validate_cpu_resource(step) ==
    LET cpu == dict_get(step.resources, "cpu") IN
    IF cpu.type = "str"
      THEN IF ~isdigit_without_dots(cpu.value) THEN resource_error(step, "cpu") ELSE <<>>
    ELSE IF cpu.type = "bool" THEN resource_error(step, "cpu")
    ELSE <<>>

validate_memory_resource(step) ==
    LET mem == dict_get(step.resources, "mem") IN
    IF mem.type = "str"
      THEN IF ~matches_mem_format(mem.value) THEN resource_error(step, "mem") ELSE <<>>
    ELSE IF mem.type \in {"int", "float", "bool"} THEN resource_error(step, "mem")
    ELSE <<>>

\* isinstance(gpu, int) holds for a bool, and True < 0 is false
validate_gpu_resource(step) ==
    LET gpu == dict_get(step.resources, "gpu") IN
    IF gpu.type \notin {"int", "bool"} THEN resource_error(step, "gpu")
    ELSE IF gpu.number < 0 THEN resource_error(step, "gpu")
    ELSE <<>>

validate_network_resource(step) ==
    LET network == dict_get(step.resources, "network") IN
    IF network.type # "bool" THEN resource_error(step, "network") ELSE <<>>

validate_step_resources(step) ==
    (IF dict_has(step.resources, "cpu") THEN validate_cpu_resource(step) ELSE <<>>)
    \o (IF dict_has(step.resources, "mem") THEN validate_memory_resource(step) ELSE <<>>)
    \o (IF dict_has(step.resources, "gpu") THEN validate_gpu_resource(step) ELSE <<>>)
    \o (IF dict_has(step.resources, "network") THEN validate_network_resource(step) ELSE <<>>)

\* `if step.resources:` is false for None and for an empty dict
validate_resources(p) ==
    Concat([i \in DOMAIN p.steps |->
        IF p.steps[i].resources # NoObject
          THEN validate_step_resources(p.steps[i]) ELSE <<>>])

valid_policies == {"auto", "never", "read-only", "write-only"}

\* line 274: `policy not in valid_policies` hashes policy; a list has no hash
cache_raises(step) ==
    /\ step.cache # NoObject
    /\ dict_has(step.cache, "policy")
    /\ dict_get(step.cache, "policy").type = "list"

validate_cache(p) ==
    Concat([i \in DOMAIN p.steps |->
        IF p.steps[i].cache # NoObject /\ dict_has(p.steps[i].cache, "policy")
           /\ ~cache_raises(p.steps[i])
           /\ dict_get(p.steps[i].cache, "policy").value \notin valid_policies
          THEN <<[check |-> "cache policy", step |-> p.steps[i].id,
                  policy |-> dict_get(p.steps[i].cache, "policy").value]>>
          ELSE <<>>])

valid_adapters ==
    [shell |-> {"process", "docker"},
     python |-> {"process", "docker", "python"},
     llm |-> {"http"},
     tool |-> {"process", "docker", "python", "http"},
     human |-> {},
     foreach |-> {},
     include |-> {}]

validate_adapters(p) ==
    Concat([i \in DOMAIN p.steps |->
        LET step == p.steps[i] IN
        IF step.adapter = None THEN <<>>
        ELSE IF step.uses \notin DOMAIN valid_adapters THEN <<>>
        ELSE IF step.uses \in {"human", "foreach", "include"}
          THEN <<[check |-> "no adapter allowed", step |-> step.id,
                  adapter |-> step.adapter]>>
        ELSE IF step.adapter \notin valid_adapters[step.uses]
          THEN <<[check |-> "adapter", step |-> step.id, adapter |-> step.adapter]>>
        ELSE <<>>])

\* lines 24-53: the errors of the six checks, one after the other; the
\* TypeError of the cache check leaves validate before it returns
PetalValidator_validate(p) ==
    IF \E i \in DOMAIN p.steps : cache_raises(p.steps[i])
      THEN [raised |-> TRUE, exception |-> "TypeError: unhashable type: 'list'"]
      ELSE LET errors == Concat(<<validate_dag(p), validate_inputs_outputs(p),
                                  validate_types(p), validate_resources(p),
                                  validate_cache(p), validate_adapters(p)>>)
           IN  [raised |-> FALSE, ok |-> (Len(errors) = 0), errors |-> errors]

\* the Petal is built (PetalParser, or the dataclasses directly)
Construct(family) ==
    /\ petal.steps = <<>>
    /\ validation = <<>>
    /\ petal' \in Petals(family)
    /\ UNCHANGED <<validation, vars, runVars, registryVars, parserVars, restVars>>

Validate ==
    /\ Len(validation) < MaxValidations
    /\ validation' = Append(validation, PetalValidator_validate(petal))
    /\ UNCHANGED <<petal, vars, runVars, registryVars, parserVars, restVars>>

NextValidateDag == Construct("dag") \/ Validate
SpecValidateDag == Init /\ [][NextValidateDag]_validatorVars

NextValidateIO == Construct("io") \/ Validate
SpecValidateIO == Init /\ [][NextValidateIO]_validatorVars

NextValidateShapes == Construct("shapes") \/ Validate
SpecValidateShapes == Init /\ [][NextValidateShapes]_validatorVars

----------------------------------------------------------------------------
(* Properties *)

Pos == 1..Len(petal_file)

StatusOf(j) ==
    IF petal_file[j].id \in DOMAIN step_status
      THEN step_status[petal_file[j].id] ELSE "<no entry>"

\* _execute_step has been entered for the step at position j
Started(j) == pc # "idle" /\ ~dry_run /\ (j < idx \/ (j = idx /\ pc # "loop"))

Registered(j) == petal_file[j].uses \in tool_registry

\* C1: when a step fails under the fail policy the failure propagates out of
\* execute and the run stops there: the exception leaves the except clause
\* unchanged, nothing happens after it, no report exists, and no step declared
\* after the failing one was invoked or has a status.
C1_FailAbortsRun ==
    /\ []((pc = "raised" /\ Step.if_error = "fail") =>
            /\ report = <<>>
            /\ \A j \in (idx + 1)..Len(petal_file) :
                 invocations[j] = 0 /\ StatusOf(j) = "<no entry>")
    /\ [][(pc = "except" /\ Step.if_error = "fail") =>
            (pc' = "raised" /\ exc' = exc /\ report' = <<>>)]_vars
    /\ [][pc # "raised"]_vars

C1_Witness ==
    /\ pc = "raised"
    /\ Len(petal_file) = 2 /\ idx = 1
    /\ Step.if_error = "fail"
    /\ failures[1] = 1

\* C2: a step that fails under the skip policy (its tool unregistered, its tool
\* raising, or its result rejected) is marked skipped, leaves state and
\* step_results as they were and has no entry in step_results; the loop goes on
\* with the next step, so a run never raises at a skip step and a returned run
\* has status completed with every step completed or skipped.
C2_SkipContinues ==
    /\ [][(pc = "except" /\ Step.if_error = "skip") =>
            /\ pc' = "loop" /\ idx' = idx + 1
            /\ Step.id \in DOMAIN step_status' /\ step_status'[Step.id] = SKIPPED
            /\ state' = state /\ step_results' = step_results]_vars
    /\ [](\A j \in Pos : StatusOf(j) = SKIPPED =>
            /\ petal_file[j].if_error = "skip"
            /\ petal_file[j].id \notin DOMAIN step_results)
    /\ [](\A k \in DOMAIN state : \E i \in 1..Len(completed_log) :
            /\ StatusOf(CHOOSE j \in Pos : petal_file[j].id = completed_log[i].id)
                 = COMPLETED
            /\ k \in DOMAIN completed_log[i].result
            /\ completed_log[i].result[k] = state[k])
    /\ [](pc = "raised" => Step.if_error # "skip")
    /\ []((pc = "returned" /\ ~dry_run) =>
            /\ report.status = "completed"
            /\ \A j \in Pos : StatusOf(j) \in {COMPLETED, SKIPPED})

C2_Witness ==
    /\ pc = "returned" /\ ~dry_run
    /\ report.status = "completed"
    /\ Len(petal_file) = 2
    /\ petal_file[1].uses = "unknown.tool"
    /\ StatusOf(1) = SKIPPED /\ StatusOf(2) = COMPLETED
    /\ DOMAIN report.step_results = {petal_file[2].id}

C4_RetryWithoutConfigIsError ==
    \A j \in Pos :
        (petal_file[j].if_error = "retry" /\ petal_file[j].retry = <<>>
           /\ Registered(j)) =>
            /\ invocations[j] = 0
            /\ StatusOf(j) # COMPLETED
            /\ (idx = j /\ pc \in {"except", "raised"} =>
                  exc = "No retry configuration provided")

\* C5 as stated: once a step naming an unregistered tool is reached, whatever
\* its policy, the run is stopped at it with 'Tool not found: <uses>'.
C5_UnknownToolAlwaysFatal ==
    \A j \in Pos : (Started(j) /\ ~Registered(j)) =>
        /\ idx = j
        /\ pc \in {"except", "raised"}
        /\ exc = "Tool not found: " \o petal_file[j].uses

\* C5 amended: a step naming an unregistered tool is never invoked and fails
\* with 'Tool not found: <uses>'; under every policy but skip (fail, or retry
\* with or without retry config) the run stops at it and raises that error;
\* under skip the step is marked skipped and the run goes on.
C5_UnknownToolFatalUnlessSkip ==
    /\ [](\A j \in Pos : (Started(j) /\ ~Registered(j)) =>
            /\ invocations[j] = 0
            /\ StatusOf(j) # COMPLETED
            /\ (idx = j =>
                  /\ pc \in {"except", "raised"}
                  /\ exc = "Tool not found: " \o petal_file[j].uses)
            /\ (idx # j =>
                  petal_file[j].if_error = "skip" /\ StatusOf(j) = SKIPPED))
    /\ [][(pc = "except" /\ Step.uses \notin tool_registry
             /\ Step.if_error # "skip") =>
            (pc' = "raised" /\ exc' = exc /\ report' = <<>>)]_vars

C5_Witness ==
    /\ pc = "raised"
    /\ Step.uses = "unknown.tool"
    /\ Step.if_error = "retry"
    /\ Step.retry = <<[max_attempts |-> MaxAttempts]>>
    /\ invocations[idx] = 0
    /\ exc = "Tool not found: unknown.tool"

\* C6: whenever a step's tool is about to be invoked, every step the step
\* needs has completed.
C6_NeedsCompletedBeforeInvocation ==
    pc = "call" =>
        \A d \in Step.needs : d \in DOMAIN step_status /\ step_status[d] = COMPLETED

\* C7: a step whose guard evaluates to false is never invoked and, once the
\* loop is past it, is recorded as skipped.
C7_FalseGuardSkipsStep ==
    \A j \in Pos :
        (petal_file[j].when # None /\ ~evaluate(petal_file[j].when, state)) =>
            /\ invocations[j] = 0
            /\ (Started(j) /\ idx > j => StatusOf(j) = SKIPPED)

\* C8: a dry run invokes no tool, leaves step_status, state and step_results
\* empty, raises nothing, and returns status dry_run with one plan entry per
\* step of the file, in the order of the file, also for unregistered tools.
C8_DryRunPlansOnly ==
    (pc # "idle" /\ dry_run) =>
        /\ pc \in {"dry_run", "returned"}
        /\ \A j \in DOMAIN invocations : invocations[j] = 0
        /\ step_status = EmptyDict /\ state = EmptyDict
        /\ step_results = EmptyDict
        /\ current_step = None /\ exc = None
        /\ (pc = "returned" =>
              /\ report.status = "dry_run"
              /\ Len(report.steps) = Len(petal_file)
              /\ \A i \in Pos :
                   /\ report.steps[i].id = petal_file[i].id
                   /\ report.steps[i].uses = petal_file[i].uses)

C8_Witness ==
    /\ pc = "returned" /\ dry_run
    /\ Len(petal_file) = 2
    /\ petal_file[2].uses = "unknown.tool"
    /\ Len(report.steps) = 2

\* C9: state holds exactly the keys returned by the completed steps, each with
\* the value of the last completed step (in execution order) that returned it,
\* and step_results holds every completed step's own result as it returned it.
C9_LastWriteWins ==
    LET n == Len(completed_log)
        Writers(k) == {i \in 1..n : k \in DOMAIN completed_log[i].result}
        Last(k) == CHOOSE i \in Writers(k) : \A i2 \in Writers(k) : i2 <= i
    IN  /\ DOMAIN state = UNION {DOMAIN completed_log[i].result : i \in 1..n}
        /\ \A k \in DOMAIN state : state[k] = completed_log[Last(k)].result[k]
        /\ DOMAIN step_results = {completed_log[i].id : i \in 1..n}
        /\ \A i \in 1..n : step_results[completed_log[i].id] = completed_log[i].result

C9_Witness ==
    /\ Len(completed_log) = 2
    /\ completed_log[1].result = ("a" :> "v2" @@ "b" :> "v1")
    /\ completed_log[2].result = ("a" :> "v1")
    /\ state = ("a" :> "v1" @@ "b" :> "v1")
    /\ step_results[completed_log[1].id] = ("a" :> "v2" @@ "b" :> "v1")

\* C10: from the creation of the WorkflowState on, every step of the file that
\* has not been started has status pending.
C10_InitiallyPending ==
    pc # "idle" =>
        \A j \in Pos : ~Started(j) =>
            /\ petal_file[j].id \in DOMAIN step_status
            /\ step_status[petal_file[j].id] = PENDING

\* C11: the transition to running immediately precedes the invocation: the
\* step that leads to a tool's execute is the one that stores running for the
\* step, and at every invocation (each retry attempt included) the step's
\* status is running, current_step is the step, and no other step is running.
C11_RunningAtInvocation ==
    /\ [](pc = "call" =>
            /\ Step.id \in DOMAIN step_status
            /\ step_status[Step.id] = RUNNING
            /\ current_step = Step.id
            /\ \A id \in DOMAIN step_status \ {Step.id} :
                 step_status[id] # RUNNING)
    /\ [][(pc # "call" /\ pc' = "call") =>
            /\ pc = "loop" /\ idx' = idx
            /\ StatusOf(idx) # RUNNING
            /\ step_status'[Step.id] = RUNNING
            /\ current_step' = Step.id]_vars

C11_Witness ==
    /\ pc = "call"
    /\ idx = 2
    /\ attempt = MaxAttempts
    /\ failures[2] = MaxAttempts - 1
    /\ StatusOf(1) = SKIPPED /\ StatusOf(2) = RUNNING
    /\ current_step = petal_file[2].id

\* C12: any two calls of execute, whenever they start and whatever base
\* directory they are given, have different run_ids, different run
\* directories and different WorkflowState objects.
C12_RunsShareNothing ==
    \A i, j \in DOMAIN runs : i # j =>
        /\ runs[i].run_id # runs[j].run_id
        /\ runs[i].run_dir # runs[j].run_dir
        /\ runs[i].state # runs[j].state

\* C13: once every register_tool call has returned, every tool registered is
\* found under its name, and each name's stored step-config class is the
\* step_config_class of the tool stored under that name.
C13_RegistryMapsAgree ==
    (\A t \in Threads : registering[t].pc = "idle") =>
        /\ \A i \in DOMAIN registered_log : dict_has(tools, registered_log[i].name)
        /\ \A i \in DOMAIN tools :
             get_step_config_class(tools[i][1]) = tools[i][2].step_config_class

\* C14: get_tool(n) is the tool stored last under exactly the name n, and
\* None for a name nobody registered; list_tools holds the names registered,
\* each once, the two built-in names among them.
C14_LookupByExactName ==
    LET n == Len(registered_log)
        Named(name) == {i \in 1..n : registered_log[i].name = name}
        Last(name) == CHOOSE i \in Named(name) : \A i2 \in Named(name) : i2 <= i
        Names == {registered_log[i].name : i \in 1..n}
    IN  /\ \A name \in Names : registry_get_tool(name) = registered_log[Last(name)]
        /\ \A name \in {"never.registered", "CUSTOM.TOOL", "debug.Echo"} \ Names :
             registry_get_tool(name) = NoObject
        /\ {list_tools[i] : i \in DOMAIN list_tools} = Names
        /\ \A i, j \in DOMAIN list_tools : list_tools[i] = list_tools[j] => i = j
        /\ {"debug.echo", "python.eval"} \subseteq Names

C14_Witness ==
    /\ \A t \in Threads : registering[t].pc = "idle"
    /\ Len(registered_log) = 4
    /\ registered_log[3].obj = "t1" /\ registered_log[4].obj = "t2"
    /\ registry_get_tool("custom.tool").obj = "t2"
    /\ list_tools = <<"debug.echo", "python.eval", "custom.tool">>

\* C15: python.eval never raises: a python.eval step that was invoked did not
\* fail in its tool, and when its expression cannot be evaluated the step is
\* completed after one invocation with the payload {error, expression} as its
\* result and merged into state's keys, the error policy untouched.
C15_PythonEvalNeverRaises ==
    \A j \in Pos :
        (petal_file[j].uses = "python.eval" /\ invocations[j] > 0) =>
            /\ failures[j] = 0
            /\ (\A g \in {EmptyDict} \cup ToolResults :
                   py_eval(petal_file[j].expression, g).kind # "value") =>
                  /\ invocations[j] = 1
                  /\ StatusOf(j) = COMPLETED
                  /\ DOMAIN step_results[petal_file[j].id] = {"error", "expression"}
                  /\ {"error", "expression"} \subseteq DOMAIN state

\* the needs graph of the Petal, read off the steps
StepIdsOf(p) == {p.steps[i].id : i \in DOMAIN p.steps}

NeedsOf(p, id) ==
    UNION {Elements(p.steps[i].needs) : i \in {j \in DOMAIN p.steps : p.steps[j].id = id}}

\* the ids reached from the set S along 1..k needs edges
RECURSIVE NeededWithin(_, _, _)
NeededWithin(p, S, k) ==
    IF k = 0 THEN {}
    ELSE LET next == UNION {NeedsOf(p, x) : x \in S}
         IN  next \cup NeededWithin(p, next, k - 1)

NeedsGraphHasCycle(p) ==
    \E id \in StepIdsOf(p) : id \in NeededWithin(p, {id}, Len(p.steps))

ErrorsOf(k, checks) ==
    {i \in DOMAIN validation[k].errors : validation[k].errors[i].check \in checks}

OutputNames(p, i) == {p.steps[i].outputs[k][1] : k \in DOMAIN p.steps[i].outputs}

\* the steps that declare the output, by position
Producers(p, name) == {i \in DOMAIN p.steps : name \in OutputNames(p, i)}

\* C16: validate reports a cycle exactly when the needs graph has one (a step
\* needing itself included), and every path reported is a cycle of the graph
\* rooted at the repeated node: first id = last id, no other id twice, and
\* each id needs the one listed after it.
C16_CyclesReported ==
    \A k \in DOMAIN validation :
        LET errors == validation[k].errors
            cycles == {errors[i].path : i \in ErrorsOf(k, {"cycle"})}
        IN  /\ (cycles # {}) <=> NeedsGraphHasCycle(petal)
            /\ \A c \in cycles :
                 /\ Len(c) >= 2
                 /\ c[1] = c[Len(c)]
                 /\ \A i \in 1..(Len(c) - 1) : c[i + 1] \in NeedsOf(petal, c[i])
                 /\ \A i, j \in 1..(Len(c) - 1) : c[i] = c[j] => i = j

C16_Witness ==
    /\ Len(validation) = 1
    /\ Len(petal.steps) = 3
    /\ petal.steps[1].needs = <<"p2">>
    /\ petal.steps[2].needs = <<"p3">>
    /\ petal.steps[3].needs = <<"p2", "p1">>
    /\ \E i \in ErrorsOf(1, {"cycle"}) :
         validation[1].errors[i].path = <<"p2", "p3", "p2">>

\* C17: for every two steps that declare the same output name there is exactly
\* one 'produced by multiple steps' error for that name naming the two ids.
C17_OneErrorPerPair ==
    \A k \in DOMAIN validation :
        \A i, j \in DOMAIN petal.steps : i < j =>
            \A name \in OutputNames(petal, i) \cap OutputNames(petal, j) :
                Cardinality({e \in ErrorsOf(k, {"multiple producers"}) :
                    /\ validation[k].errors[e].output = name
                    /\ {validation[k].errors[e].first, validation[k].errors[e].second}
                         = {petal.steps[i].id, petal.steps[j].id}}) = 1

\* C18: for a step input with from = outputs.<name>: when no step declares
\* <name> there is an 'undefined output' error for the input; when the step's
\* needs holds no id of a step declaring <name> there is a provenance error
\* for the step and the name; when needs holds the id of the step whose
\* output is consumed (the first step declaring <name>) there is none.
C18_InputProvenance ==
    \A k \in DOMAIN validation :
        \A i \in DOMAIN petal.steps : \A n \in DOMAIN petal.steps[i].inputs :
            \A name \in {"x", "y"} :
                petal.steps[i].inputs[n][2].from_ = "outputs." \o name =>
                    LET step == petal.steps[i]
                        errors == validation[k].errors
                        provenance ==
                            {e \in ErrorsOf(k, {"undefined output", "undeclared dependency"}) :
                                errors[e].step = step.id /\ errors[e].output = name}
                        first == CHOOSE q \in Producers(petal, name) :
                                    \A q2 \in Producers(petal, name) : q <= q2
                    IN  /\ Producers(petal, name) = {} =>
                              \E e \in provenance :
                                  /\ errors[e].check = "undefined output"
                                  /\ errors[e].input = step.inputs[n][1]
                        /\ (\A q \in Producers(petal, name) :
                               petal.steps[q].id \notin Elements(step.needs)) =>
                              provenance # {}
                        /\ (Producers(petal, name) # {}
                              /\ petal.steps[first].id \in Elements(step.needs)) =>
                              provenance = {}

C18_Witness ==
    /\ Len(validation) = 1
    /\ Len(petal.steps) = 3
    /\ OutputNames(petal, 1) = {"x"}
    /\ petal.steps[2].inputs # <<>> /\ petal.steps[2].needs = <<"p1">>
    /\ petal.steps[3].inputs # <<>> /\ petal.steps[3].needs = <<>>
    /\ OutputNames(petal, 2) = {} /\ OutputNames(petal, 3) = {}
    /\ Cardinality(ErrorsOf(1, {"undeclared dependency"})) = 1
    /\ \E e \in ErrorsOf(1, {"undeclared dependency"}) :
         validation[1].errors[e].step = "p3" /\ validation[1].errors[e].producer = "p1"
    /\ ErrorsOf(1, {"undefined output"}) = {}

\* C19: validate never throws; it returns ok = (errors is empty); errors holds
\* every error of every check whatever the other checks found, one error for
\* each step and missing id in its needs, one for each pair of steps
\* declaring the same output; and every call on the same Petal returns the
\* same.
C19_ValidateAccumulates ==
    \A k \in DOMAIN validation :
        /\ ~validation[k].raised
        /\ validation[k].ok <=> (validation[k].errors = <<>>)
        /\ \A check \in {validate_dag(petal), validate_inputs_outputs(petal),
                         validate_types(petal), validate_resources(petal),
                         validate_cache(petal), validate_adapters(petal)} :
             Elements(check) \subseteq Elements(validation[k].errors)
        /\ \A i \in DOMAIN petal.steps :
             \A needed \in Elements(petal.steps[i].needs) \ StepIdsOf(petal) :
                Cardinality({e \in ErrorsOf(k, {"missing dependency"}) :
                    /\ validation[k].errors[e].step = petal.steps[i].id
                    /\ validation[k].errors[e].needed = needed}) = 1
        /\ \A i, j \in DOMAIN petal.steps : i < j =>
             \A name \in OutputNames(petal, i) \cap OutputNames(petal, j) :
                \E e \in ErrorsOf(k, {"multiple producers"}) :
                    {validation[k].errors[e].first, validation[k].errors[e].second}
                      = {petal.steps[i].id, petal.steps[j].id}
        /\ validation[k] = validation[1]

----------------------------------------------------------------------------
(* Expression language (expressions.py). An expression text is modelled by  *)
(* what it is built of, with its operators as they are spelled in the text, *)
(* and by the number of blanks written between two tokens (at least one).   *)
(* The nodes carry the names and fields of Python's ast classes.            *)

ast_Blank == [node |-> "Blank"]
\* "f(": a text that is no expression
ast_Unclosed == [node |-> "Unclosed"]
ast_Name(id) == [node |-> "Name", id |-> id]
ast_Constant == [node |-> "Constant"]
ast_Call(func, args) == [node |-> "Call", func |-> func, args |-> args]
ast_Attribute(value) == [node |-> "Attribute", value |-> value]
ast_Subscript(value, slice) == [node |-> "Subscript", value |-> value, slice |-> slice]
ast_Compare(left, ops, comparators) ==
    [node |-> "Compare", left |-> left, ops |-> ops, comparators |-> comparators]
ast_BoolOp(op, values) == [node |-> "BoolOp", op |-> op, values |-> values]
ast_UnaryOp(op, operand) == [node |-> "UnaryOp", op |-> op, operand |-> operand]
ast_BinOp(left, op, right) == [node |-> "BinOp", left |-> left, op |-> op, right |-> right]
ast_List(elts) == [node |-> "List", elts |-> elts]
ast_Dict(keys, values) == [node |-> "Dict", keys |-> keys, values |-> values]
ast_Expression(body) == [node |-> "Expression", body |-> body]
ast_Load == [node |-> "Load"]

\* the expressions directly inside an expression
SubExpressions(t) ==
    CASE t.node = "Call" -> <<t.func>> \o t.args
      [] t.node = "Attribute" -> <<t.value>>
      [] t.node = "Subscript" -> <<t.value, t.slice>>
      [] t.node = "Compare" -> <<t.left>> \o t.comparators
      [] t.node = "BoolOp" -> t.values
      [] t.node = "UnaryOp" -> <<t.operand>>
      [] t.node = "BinOp" -> <<t.left, t.right>>
      [] t.node = "List" -> t.elts
      [] t.node = "Dict" -> t.keys \o t.values
      [] OTHER -> <<>>

\* the texts: a name, a namespace and the call f() alone ...
Leaves ==
    {ast_Name("x"), ast_Name("params"), ast_Call(ast_Name("f"), <<>>)}

\* ... and f(t), t.a, params[t], t[1], t + 1, [t], {1: t}, t == 1, t != 1,
\* x and t, ! t around a text t
Wrapped(t) ==
    {ast_Call(ast_Name("f"), <<t>>), ast_Attribute(t),
     ast_Subscript(ast_Name("params"), t), ast_Subscript(t, ast_Constant),
     ast_BinOp(t, "+", ast_Constant), ast_List(<<t>>), ast_Dict(<<ast_Constant>>, <<t>>),
     ast_BoolOp("and", <<ast_Name("x"), t>>)}
    \cup {ast_Compare(t, <<op>>, <<ast_Constant>>) : op \in {"==", "!="}}
    \cup {ast_UnaryOp(op, t) : op \in {"!"}}

RECURSIVE ExpressionsOfDepth(_)
ExpressionsOfDepth(d) ==
    IF d = 0 THEN Leaves
    ELSE Leaves \cup UNION {Wrapped(t) : t \in ExpressionsOfDepth(d - 1)}

Expressions == ExpressionsOfDepth(MaxDepth) \cup {ast_Unclosed}

\* ExpressionParser.OPERATORS, in the order of the dict
OPERATORS ==
    << <<"&&", "and">>, <<"||", "or">>, <<"!", "not">>, <<"==", "==">>,
       <<"!=", "!=">>, <<"<", "<">>, <<"<=", "<=">>, <<">", ">">>,
       <<">=", ">=">>, <<"in", "in">> >>

NAMESPACES == {"params", "vars", "outputs", "env"}

\* the operators a text may hold
Spellings == {"&&", "||", "!", "==", "!=", "and", "or", "not", "-", "+", "not="}

\* re.sub(rf"\b{petal_op}\b", python_op, token): "&&" and "||" have a word
\* boundary only next to a letter or digit, and here they stand between blanks
re_sub_word_bounded(token, petal_op, python_op) == token

\* token.replace(petal_op, python_op) on an operator of the text
str_replace(token, petal_op, python_op) ==
    IF petal_op = python_op THEN token
    ELSE IF petal_op = "!" /\ token = "!" THEN python_op
    ELSE IF petal_op = "!" /\ token = "!=" THEN "not="
    ELSE token

\* the loop of _convert_operators on one operator, from entry i of OPERATORS
RECURSIVE convert_operator(_, _)
convert_operator(token, i) ==
    IF i > Len(OPERATORS) THEN token
    ELSE convert_operator(
            IF OPERATORS[i][1] \in {"&&", "||"}
            THEN re_sub_word_bounded(token, OPERATORS[i][1], OPERATORS[i][2])
            ELSE str_replace(token, OPERATORS[i][1], OPERATORS[i][2]),
            i + 1)

\* the text with every operator replaced by f[operator]
RECURSIVE with_operators(_, _)
with_operators(t, f) ==
    CASE t.node = "Call" ->
            ast_Call(with_operators(t.func, f),
                     [i \in DOMAIN t.args |-> with_operators(t.args[i], f)])
      [] t.node = "Attribute" -> ast_Attribute(with_operators(t.value, f))
      [] t.node = "Subscript" ->
            ast_Subscript(with_operators(t.value, f), with_operators(t.slice, f))
      [] t.node = "Compare" ->
            ast_Compare(with_operators(t.left, f),
                        [i \in DOMAIN t.ops |-> f[t.ops[i]]],
                        [i \in DOMAIN t.comparators |-> with_operators(t.comparators[i], f)])
      [] t.node = "BoolOp" ->
            ast_BoolOp(f[t.op], [i \in DOMAIN t.values |-> with_operators(t.values[i], f)])
      [] t.node = "UnaryOp" -> ast_UnaryOp(f[t.op], with_operators(t.operand, f))
      [] t.node = "BinOp" ->
            ast_BinOp(with_operators(t.left, f), f[t.op], with_operators(t.right, f))
      [] t.node = "List" -> ast_List([i \in DOMAIN t.elts |-> with_operators(t.elts[i], f)])
      [] t.node = "Dict" ->
            ast_Dict([i \in DOMAIN t.keys |-> with_operators(t.keys[i], f)],
                     [i \in DOMAIN t.values |-> with_operators(t.values[i], f)])
      [] OTHER -> t

convert_operators(expression) ==
    with_operators(expression, [op \in Spellings |-> convert_operator(op, 1)])

\* the operators of Python's grammar, and the ast class each one parses to
PythonOperators ==
    [op \in {"==", "!=", "and", "or", "not", "-", "+"} |->
        CASE op = "==" -> "Eq" [] op = "!=" -> "NotEq" [] op = "and" -> "And"
          [] op = "or" -> "Or" [] op = "not" -> "Not" [] op = "-" -> "USub"
          [] op = "+" -> "Add"]

\* the operators written in a text
RECURSIVE OperatorsIn(_)
OperatorsIn(t) ==
    (CASE t.node = "Compare" -> Elements(t.ops)
       [] t.node \in {"BoolOp", "UnaryOp", "BinOp"} -> {t.op}
       [] OTHER -> {})
    \cup UNION {OperatorsIn(SubExpressions(t)[i]) : i \in DOMAIN SubExpressions(t)}

\* ast.parse(python_expr, mode="eval") raises SyntaxError
is_syntax_error(python_expr) ==
    \/ python_expr.node = "Unclosed"
    \/ ~(OperatorsIn(python_expr) \subseteq DOMAIN PythonOperators)

\* ast.parse(python_expr, mode="eval") of a text without syntax error
ast_parse(python_expr) == ast_Expression(with_operators(python_expr, PythonOperators))

\* ast.iter_child_nodes(node): the fields in the order of the ast class
iter_child_nodes(n) ==
    CASE n.node = "Expression" -> <<n.body>>
      [] n.node = "Name" -> <<ast_Load>>
      [] n.node = "Call" -> <<n.func>> \o n.args
      [] n.node = "Attribute" -> <<n.value, ast_Load>>
      [] n.node = "Subscript" -> <<n.value, n.slice, ast_Load>>
      [] n.node = "Compare" ->
            <<n.left>> \o [i \in DOMAIN n.ops |-> [node |-> n.ops[i]]] \o n.comparators
      [] n.node = "BoolOp" -> <<[node |-> n.op]>> \o n.values
      [] n.node = "UnaryOp" -> <<[node |-> n.op], n.operand>>
      [] n.node = "BinOp" -> <<n.left, [node |-> n.op], n.right>>
      [] n.node = "List" -> n.elts \o <<ast_Load>>
      [] n.node = "Dict" -> n.keys \o n.values
      [] OTHER -> <<>>

\* variant: the tree's top node and its children only
walk_children_only(tree) == <<tree>> \o iter_child_nodes(tree)

RECURSIVE walk_todo(_)
walk_todo(todo) ==
    IF todo = <<>> THEN <<>>
    ELSE <<Head(todo)>> \o walk_todo(Tail(todo) \o iter_child_nodes(Head(todo)))

\* ast.walk(tree): breadth first, every node
walk(tree) == walk_todo(<<tree>>)

\* no ExpressionError raised; an error is the text of its message, in parts
NoError == <<>>

\* the first error raised by statements run one after the other
RECURSIVE raise_first(_)
raise_first(raised) ==
    IF raised = <<>> THEN NoError
    ELSE IF Head(raised) # NoError THEN Head(raised)
    ELSE raise_first(Tail(raised))

is_allowed_literal(n) == n.node \in {"Constant", "List", "Dict", "Tuple"}

is_allowed_context(n) ==
    n.node \in {"Expression", "Load", "Eq", "NotEq", "Lt", "LtE", "Gt", "GtE",
                "In", "NotIn", "And", "Or", "Not"}

RECURSIVE validate_ast(_)
RECURSIVE validate_node(_)
RECURSIVE validate_nodes(_)

\* an ast.Name holds no ".", so line 146 never finds one
validate_identifier(n) == NoError

validate_attribute(n) ==
    IF n.value.node = "Name"
    THEN IF n.value.id \notin NAMESPACES
         THEN <<"Invalid namespace: ", n.value.id>> ELSE NoError
    ELSE validate_ast(ast_Expression(n.value))

validate_subscript(n) ==
    raise_first(<<validate_ast(ast_Expression(n.value)),
                  validate_ast(ast_Expression(n.slice))>>)

validate_compare(n) ==
    raise_first(<<validate_ast(ast_Expression(n.left))>> \o
        Concat([i \in DOMAIN n.ops |->
            <<IF n.ops[i] \notin {"Eq", "NotEq", "Lt", "LtE", "Gt", "GtE", "In", "NotIn"}
              THEN <<"Unsupported comparison operator: ", n.ops[i]>> ELSE NoError,
              validate_ast(ast_Expression(n.comparators[i]))>>]))

validate_bool_op(n) ==
    raise_first(<<IF n.op \notin {"And", "Or"}
                  THEN <<"Unsupported boolean operator: ", n.op>> ELSE NoError>>
                \o [i \in DOMAIN n.values |-> validate_ast(ast_Expression(n.values[i]))])

validate_unary_op(n) ==
    raise_first(<<IF n.op # "Not"
                  THEN <<"Unsupported unary operator: ", n.op>> ELSE NoError,
                  validate_ast(ast_Expression(n.operand))>>)

validate_bin_op(n) ==
    raise_first(<<IF n.op \notin {"Add", "Sub", "Mult", "Div", "Mod", "Pow"}
                  THEN <<"Unsupported binary operator: ", n.op>> ELSE NoError,
                  validate_ast(ast_Expression(n.left)),
                  validate_ast(ast_Expression(n.right))>>)

\* _validate_node with _get_node_validator
validate_node(n) ==
    IF is_allowed_literal(n) \/ is_allowed_context(n) THEN NoError
    ELSE IF n.node = "Call" THEN <<"Function calls are not allowed in expressions">>
    ELSE CASE n.node = "Name" -> validate_identifier(n)
           [] n.node = "Attribute" -> validate_attribute(n)
           [] n.node = "Subscript" -> validate_subscript(n)
           [] n.node = "Compare" -> validate_compare(n)
           [] n.node = "BoolOp" -> validate_bool_op(n)
           [] n.node = "UnaryOp" -> validate_unary_op(n)
           [] n.node = "BinOp" -> validate_bin_op(n)
           [] OTHER -> <<"Unsupported operation: ", n.node>>

\* the loop of _validate_ast: the first node that raises ends it
validate_nodes(nodes) ==
    IF nodes = <<>> THEN NoError
    ELSE LET raised == validate_node(Head(nodes)) IN
         IF raised # NoError THEN raised ELSE validate_nodes(Tail(nodes))

validate_ast(tree) == validate_nodes(walk(tree))

ExpressionError(message) == [type |-> "ExpressionError", message |-> message]

\* not expression or not expression.strip()
is_empty(expression) == expression.source.node = "Blank"

\* " ".join(expression.split())
normalize_whitespace(expression) == [expression EXCEPT !.spacing = 1]

\* ExpressionParser.parse: what it raises or returns, and the cache after it
ExpressionParser_parse(expression, compiled) ==
    IF is_empty(expression)
    THEN [raised |-> TRUE, exception |-> ExpressionError(<<"Expression cannot be empty">>),
          result |-> NoObject, compiled |-> compiled]
    ELSE LET key == normalize_whitespace(expression) IN
      IF dict_has(compiled, key)
      THEN [raised |-> FALSE, exception |-> NoObject,
            result |-> dict_get(compiled, key), compiled |-> compiled]
      ELSE LET python_expr == convert_operators(key.source) IN
        IF is_syntax_error(python_expr)
        THEN [raised |-> TRUE,
              exception |-> ExpressionError(<<"Syntax error in expression: ", "invalid syntax">>),
              result |-> NoObject, compiled |-> compiled]
        ELSE LET tree == ast_parse(python_expr)
                 e == validate_ast(tree) IN
          IF e # NoError
          THEN [raised |-> TRUE,
                exception |-> ExpressionError(<<"Failed to parse expression: ">> \o e),
                result |-> NoObject, compiled |-> compiled]
          ELSE [raised |-> FALSE, exception |-> NoObject, result |-> tree,
                compiled |-> dict_setitem(compiled, key, tree)]

\* ExpressionEvaluator.validate: except ExpressionError only
ExpressionEvaluator_validate(expression, compiled) ==
    LET parsed == ExpressionParser_parse(expression, compiled) IN
    IF ~parsed.raised
    THEN [parsed EXCEPT !.result = <<TRUE, NoObject>>]
    ELSE IF parsed.exception.type = "ExpressionError"
    THEN [parsed EXCEPT !.raised = FALSE, !.exception = NoObject,
                        !.result = <<FALSE, parsed.exception.message>>]
    ELSE parsed

\* the evaluator, so far handed blank texts only, is handed an expression
NewExpression(source, spaces) ==
    /\ is_empty(if_expression)
    /\ parse_outcome = <<>>
    /\ if_expression' = [source |-> source, spacing |-> spaces]
    /\ UNCHANGED <<compiled_expressions, parse_outcome>>
    /\ UNCHANGED <<vars, runVars, registryVars, validatorVars, restVars>>

\* the same expression is written with other whitespace
Respace(spaces) ==
    /\ spaces # if_expression.spacing
    /\ is_empty(if_expression) \/ spaces >= 1
    /\ if_expression' = [if_expression EXCEPT !.spacing = spaces]
    /\ parse_outcome' = <<>>
    /\ UNCHANGED compiled_expressions
    /\ UNCHANGED <<vars, runVars, registryVars, validatorVars, restVars>>

\* parser.parse(expression)
Parse ==
    /\ LET done == ExpressionParser_parse(if_expression, compiled_expressions) IN
        /\ compiled_expressions' = done.compiled
        /\ parse_outcome' =
              <<[call |-> "parse", raised |-> done.raised,
                 exception |-> done.exception, result |-> done.result]>>
    /\ UNCHANGED if_expression
    /\ UNCHANGED <<vars, runVars, registryVars, validatorVars, restVars>>

\* evaluator.validate(expression)
ValidateExpression ==
    /\ LET done == ExpressionEvaluator_validate(if_expression, compiled_expressions) IN
        /\ compiled_expressions' = done.compiled
        /\ parse_outcome' =
              <<[call |-> "validate", raised |-> done.raised,
                 exception |-> done.exception, result |-> done.result]>>
    /\ UNCHANGED if_expression
    /\ UNCHANGED <<vars, runVars, registryVars, validatorVars, restVars>>

NextParser ==
    \/ \E source \in Expressions, spaces \in 1..MaxSpaces : NewExpression(source, spaces)
    \/ \E spaces \in 0..MaxSpaces : Respace(spaces)
    \/ Parse
    \/ ValidateExpression

SpecParser == Init /\ [][NextParser]_parserVars

\* a function call somewhere in the text
RECURSIVE ContainsCall(_)
ContainsCall(t) ==
    \/ t.node = "Call"
    \/ \E i \in DOMAIN SubExpressions(t) : ContainsCall(SubExpressions(t)[i])

\* C20: for every expression that contains a function call anywhere in it,
\* parse raises an ExpressionError and validate returns (False, message)
\* without raising, whatever was parsed before and however the text is
\* spaced; no such expression is ever in the cache of compiled expressions.
C20_CallsRejected ==
    /\ \A k \in DOMAIN parse_outcome :
        ContainsCall(if_expression.source) =>
            /\ parse_outcome[k].call = "parse" =>
                /\ parse_outcome[k].raised
                /\ parse_outcome[k].exception.type = "ExpressionError"
            /\ parse_outcome[k].call = "validate" =>
                /\ ~parse_outcome[k].raised
                /\ parse_outcome[k].result[1] = FALSE
                /\ parse_outcome[k].result[2] # NoObject
    /\ \A i \in DOMAIN compiled_expressions :
        ~ContainsCall(compiled_expressions[i][1].source)

\* validate has returned (False, message) for a call that lies deeper than
\* the elements of a list, a dict or a subscript
C20_Witness ==
    /\ parse_outcome # <<>>
    /\ if_expression.source.node \in {"List", "Dict", "Subscript"}
    /\ \E i \in DOMAIN SubExpressions(if_expression.source) :
          SubExpressions(if_expression.source)[i].node \notin {"Call", "Name", "Constant"}
          /\ ContainsCall(SubExpressions(if_expression.source)[i])
    /\ parse_outcome[1].call = "validate" /\ ~parse_outcome[1].raised
    /\ parse_outcome[1].result[1] = FALSE

\* an attribute access or a subscript access
IsAccess(t) == t.node \in {"Attribute", "Subscript"}

\* what a chain of accesses starts from
RECURSIVE BaseOf(_)
BaseOf(t) == IF IsAccess(t) THEN BaseOf(t.value) ELSE t

\* the accesses written in a text
RECURSIVE AccessesIn(_)
AccessesIn(t) ==
    (IF IsAccess(t) THEN {t} ELSE {})
    \cup UNION {AccessesIn(SubExpressions(t)[i]) : i \in DOMAIN SubExpressions(t)}

\* the latest call took the expression: parse returned a tree, validate
\* returned (True, None)
Accepted ==
    /\ parse_outcome # <<>>
    /\ ~parse_outcome[1].raised
    /\ parse_outcome[1].call = "validate" => parse_outcome[1].result[1]

\* C21: an expression is accepted only when every attribute access and every
\* subscript access in it starts, through the chain of accesses, from one of
\* the names params, vars, outputs, env; an access on another identifier or
\* on a literal is rejected.
C21_AccessOnlyIntoNamespaces ==
    Accepted =>
        \A a \in AccessesIn(if_expression.source) :
            /\ BaseOf(a).node = "Name"
            /\ BaseOf(a).id \in NAMESPACES

\* the operators of the documented grammar
GrammarOperators ==
    {"&&", "||", "!", "==", "!=", "<", "<=", ">", ">=", "in",
     "+", "-", "*", "/", "%", "**"}

\* a text of the documented grammar: its operands are literals or references
\* into the namespaces, its operators are those of the grammar
RECURSIVE InGrammar(_)
InGrammar(t) ==
    CASE t.node = "Constant" -> TRUE
      [] t.node = "Name" -> t.id \in NAMESPACES
      [] IsAccess(t) ->
            /\ BaseOf(t).node = "Name"
            /\ \A i \in DOMAIN SubExpressions(t) : InGrammar(SubExpressions(t)[i])
      [] t.node \in {"Compare", "BoolOp", "UnaryOp", "BinOp"} ->
            /\ OperatorsIn(t) \subseteq GrammarOperators
            /\ \A i \in DOMAIN SubExpressions(t) : InGrammar(SubExpressions(t)[i])
      [] OTHER -> FALSE

\* C22: every expression of the documented grammar (operators &&, ||, !, ==,
\* !=, <, <=, >, >=, in, + - * / % ** on literals and references into the
\* namespaces) is accepted by parse and by validate.
C22_GrammarOperatorsAccepted ==
    (parse_outcome # <<>> /\ InGrammar(if_expression.source)) => Accepted

----------------------------------------------------------------------------
(* PetalParser (parser.py): parse_string on a workflow file with one step.  *)
(* step_data is the mapping yaml.safe_load gave for that step; the keys of  *)
(* the file around it (petal, name) are present and valid. Of the keys that *)
(* _dict_to_petal copies under their own name, id and uses are drawn.       *)

\* a value of the YAML tree where a scalar or a mapping may stand
YamlScalar(v) == [scalar |-> v]
YamlMapping(m) == [mapping |-> m]

\* isinstance(node, dict)
isinstance_dict(node) == "mapping" \in DOMAIN node

\* d.get(key, default)
dict_get_default(d, key, default) == IF key \in DOMAIN d THEN d[key] ELSE default

\* what a constructor or a conversion did: the object, or the exception
Returned(object) ==
    [raised |-> FALSE, exception |-> [type |-> None, message |-> None],
     value |-> object]

Raised(type, message) ==
    [raised |-> TRUE, exception |-> [type |-> type, message |-> message],
     value |-> NoObject]

\* the fields of the dataclass IODecl
IODeclFields == {"type", "required", "json_schema", "from_", "path"}

valid_types ==
    {"str", "int", "float", "bool", "path", "file", "dir", "json", "secret",
     "bytes"}

\* IODecl(**kwargs): a keyword that is no field is a TypeError, then
\* __post_init__ checks the type
IODecl_init(kwargs) ==
    IF ~(DOMAIN kwargs \subseteq IODeclFields)
      THEN Raised("TypeError",
                  "IODecl.__init__() got an unexpected keyword argument")
    ELSE IF /\ dict_get_default(kwargs, "type", None) # None
            /\ dict_get_default(kwargs, "type", None) \notin valid_types
      THEN Raised("ValueError", "Invalid type")
    ELSE Returned([type |-> dict_get_default(kwargs, "type", None),
                   required |-> dict_get_default(kwargs, "required", FALSE),
                   from_ |-> dict_get_default(kwargs, "from_", None),
                   path |-> dict_get_default(kwargs, "path", None)])

\* one entry of inputs or outputs: a mapping is spread into IODecl's
\* keywords, a scalar is the type
io_decl(io_data) ==
    IF isinstance_dict(io_data)
      THEN IODecl_init(io_data.mapping)
      ELSE IODecl_init("type" :> (IF io_data.scalar # "" THEN io_data.scalar ELSE None))

\* the loop over step_data.get(key, {}).items(): the dict of IODecl, or the
\* exception of an entry that raised (the dicts drawn have one entry)
io_decls(ios) ==
    LET made == [n \in DOMAIN ios |-> io_decl(ios[n])] IN
    IF \E n \in DOMAIN ios : made[n].raised
      THEN made[CHOOSE n \in DOMAIN ios : made[n].raised]
      ELSE Returned([n \in DOMAIN ios |-> made[n].value])

valid_uses == {"shell", "python", "llm", "human", "foreach", "include", "tool"}

\* StepBase(...): __post_init__ checks uses
StepBase_init(fields) ==
    IF fields.uses \notin valid_uses
      THEN Raised("ValueError", "Invalid uses")
      ELSE Returned(fields)

\* the keyword with_ of the StepBase call
step_with(sd) == dict_get_default(sd, "with_", NoObject)

\* the keyword if_ of the StepBase call
step_if(sd) == dict_get_default(sd, "if", None)

\* _dict_to_petal, the body of the loop over the steps
dict_to_step(sd) ==
    IF "id" \notin DOMAIN sd
      THEN Raised("PetalParseError", "Step missing required 'id' field")
    ELSE IF "uses" \notin DOMAIN sd
      THEN Raised("PetalParseError", "Step missing required 'uses' field")
    ELSE
      LET inputs == io_decls(dict_get_default(sd, "inputs", EmptyDict))
          outputs == io_decls(dict_get_default(sd, "outputs", EmptyDict))
      IN  IF inputs.raised THEN inputs
          ELSE IF outputs.raised THEN outputs
          ELSE StepBase_init([id |-> sd["id"], uses |-> sd["uses"],
                         if_ |-> step_if(sd),
                         inputs |-> inputs.value, outputs |-> outputs.value,
                         with_ |-> step_with(sd)])

\* parse_string: an exception that is no PetalParseError is wrapped into one
parse_string(sd) ==
    LET made == dict_to_step(sd) IN
    IF made.raised /\ made.exception.type # "PetalParseError"
      THEN Raised("PetalParseError",
                  "Failed to parse Petal content: " \o made.exception.message)
      ELSE made

\* the entries drawn for inputs and outputs
IoDatas ==
    {YamlScalar("str"), YamlScalar("string"),
     YamlMapping("type" :> "str"),
     YamlMapping("from" :> "outputs.x"),
     YamlMapping("from_" :> "outputs.x"),
     YamlMapping("type" :> "str" @@ "from" :> "outputs.x")}

\* absent, or the key with one of the values
Optional(key, values) == {EmptyDict} \cup {key :> v : v \in values}

\* the step mappings drawn
StepDatas ==
    {("id" :> "s1") @@ uses @@ guard @@ bag @@ bag_ @@ ins @@ outs :
        uses \in Optional("uses", {"shell", "bash"}),
        guard \in Optional("if", {"params.go"}),
        bag \in Optional("with", {"cmd" :> "ls"}),
        bag_ \in Optional("with_", {"cmd" :> "pwd"}),
        ins \in Optional("inputs", {"i" :> d : d \in IoDatas}),
        outs \in Optional("outputs",
                          {"o" :> d : d \in {YamlMapping("type" :> "str"),
                                             YamlMapping("from" :> "vars.y")}})}

ParseString(sd) ==
    /\ step_data' = sd
    /\ loaded' = <<parse_string(sd)>>
    /\ UNCHANGED <<vars, runVars, registryVars, validatorVars, parserVars,
                   retryVars, templateVars>>

NextLoader == \E sd \in StepDatas : ParseString(sd)

SpecLoader == Init /\ [][NextLoader]_loaderVars

\* a step of the file format: the required keys with valid values, the
\* optional keys under the names of the file (if, with, from)
FileFormat(sd) ==
    /\ DOMAIN sd \subseteq {"id", "uses", "if", "with", "inputs", "outputs"}
    /\ "uses" \in DOMAIN sd /\ sd["uses"] \in valid_uses
    /\ \A key \in {"inputs", "outputs"} \cap DOMAIN sd :
         \A n \in DOMAIN sd[key] :
            IF isinstance_dict(sd[key][n])
              THEN /\ DOMAIN sd[key][n].mapping \subseteq {"type", "from"}
                   /\ "type" \in DOMAIN sd[key][n].mapping =>
                          sd[key][n].mapping["type"] \in valid_types
              ELSE sd[key][n].scalar \in valid_types

\* the from-references of the file, against those of the step made
FromKept(ios, decls) ==
    \A n \in DOMAIN ios :
        (isinstance_dict(ios[n]) /\ "from" \in DOMAIN ios[n].mapping) =>
            decls[n].from_ = ios[n].mapping["from"]

\* C23: a step written with the keys of the file format parses, and the
\* step made holds the value of `if` as guard, the value of `with` as
\* parameter bag and the value of each declaration's `from` as from_.
C23_ReservedKeysMapped ==
    (loaded # <<>> /\ FileFormat(step_data)) =>
        /\ ~loaded[1].raised
        /\ "if" \in DOMAIN step_data =>
               loaded[1].value.if_ = step_data["if"]
        /\ "with" \in DOMAIN step_data =>
               loaded[1].value.with_ = step_data["with"]
        /\ \A key \in {"inputs", "outputs"} \cap DOMAIN step_data :
               FromKept(step_data[key], loaded[1].value[key])

----------------------------------------------------------------------------
(* _execute_with_retry (core.py): the loop tenacity runs around the tool    *)
(* call, with its waits. Times are whole seconds.                           *)

\* the Retry configs drawn (models_strict.Retry: max_attempts 1..10,
\* backoff_factor 0.1..10.0, max_delay 1.0..3600.0)
BackoffRetryConfigs ==
    [max_attempts : 1..MaxAttempts, backoff_factor : {1, 2, 3, 10},
     max_delay : {1, 5, 20}]

smaller(a, b) == IF a <= b THEN a ELSE b
larger(a, b) == IF a >= b THEN a ELSE b

\* tenacity's wait_exponential(multiplier, max) with its defaults
\* exp_base = 2 and min = 0: the wait after the attempt of this number
wait_exponential(multiplier, max, attempt_number) ==
    larger(larger(0, 0), smaller(multiplier * 2 ^ (attempt_number - 1), max))

\* _execute_with_retry is called: tenacity starts the first attempt
RetryCall(config) ==
    /\ attempts_made = 0
    /\ retry_config' = config
    /\ attempts_made' = 1
    /\ sleeps' = <<>>
    /\ UNCHANGED <<vars, runVars, registryVars, validatorVars, parserVars,
                   loaderVars, templateVars>>

\* the attempt raises: tenacity gives up (RetryError), or sleeps and starts
\* the next attempt
AttemptRaises ==
    /\ attempts_made > 0
    /\ IF stop_after_attempt(retry_config.max_attempts, attempts_made)
         THEN /\ attempts_made' = 0
              /\ sleeps' = sleeps
         ELSE /\ sleeps' = Append(sleeps,
                     wait_exponential(retry_config.backoff_factor,
                                      retry_config.max_delay, attempts_made))
              /\ attempts_made' = attempts_made + 1
    /\ UNCHANGED <<retry_config, vars, runVars, registryVars, validatorVars,
                   parserVars, loaderVars, templateVars>>

\* the attempt returns: so does _execute_with_retry
AttemptReturns ==
    /\ attempts_made > 0
    /\ attempts_made' = 0
    /\ UNCHANGED <<retry_config, sleeps, vars, runVars, registryVars,
                   validatorVars, parserVars, loaderVars, templateVars>>

NextRetry ==
    \/ \E config \in BackoffRetryConfigs : RetryCall(config)
    \/ AttemptRaises
    \/ AttemptReturns

SpecRetry == Init /\ [][NextRetry]_retryVars

\* C24: the wait before retry number n is backoff_factor to the power n,
\* capped at max_delay.
C24_WaitIsPowerOfFactor ==
    \A n \in DOMAIN sleeps :
        sleeps[n] = smaller(retry_config.backoff_factor ^ n, retry_config.max_delay)

----------------------------------------------------------------------------
(* PetalTemplateEngine (templating.py). A template is a sequence of tokens: *)
(* "{{" and "}}", names, and the line end.                                  *)

NewLine == "\n"

\* the words the nested patterns look for
NestedKeywords == {"render", "include", "extends"}

\* the pieces a template is put together from: an interpolation, a nested
\* interpolation, an interpolation of a keyword, a keyword as plain text, a
\* plain word, a line end
Segments ==
    {<<"{{", "a", "}}">>, <<"{{", "{{", "a", "}}", "}}">>,
     <<"{{", "render", "}}">>, <<"render">>, <<"a">>, <<NewLine>>}

RECURSIVE TemplatesOf(_)
TemplatesOf(n) ==
    IF n = 0 THEN {<<>>}
    ELSE {t \o seg : t \in TemplatesOf(n - 1), seg \in Segments}

Templates == UNION {TemplatesOf(n) : n \in 0..MaxSegments}

\* `.*` of a pattern without DOTALL: the tokens from..to hold no line end
same_line(t, from, to) == \A k \in from..to : t[k] # NewLine

\* re.search(r"\{\{.*\{\{.*\}\}.*\}\}", template_str)
search_nested_braces(t) ==
    \E i, j, k, l \in DOMAIN t :
        /\ i < j /\ j < k /\ k < l
        /\ t[i] = "{{" /\ t[j] = "{{" /\ t[k] = "}}" /\ t[l] = "}}"
        /\ same_line(t, i, l)

\* re.search(r"\{\{.*<keyword>.*\}\}", template_str, re.IGNORECASE)
search_keyword(t, keyword) ==
    \E i, j, k \in DOMAIN t :
        /\ i < j /\ j < k
        /\ t[i] = "{{" /\ t[j] = keyword /\ t[k] = "}}"
        /\ same_line(t, i, k)

\* _has_nested_templates: one of the four patterns is found
has_nested_templates(t) ==
    \/ search_nested_braces(t)
    \/ \E keyword \in NestedKeywords : search_keyword(t, keyword)

\* jinja2's Environment.from_string from token i on: every "{{" is followed
\* by one name and "}}"; TRUE when the template compiles
RECURSIVE from_string(_, _)
from_string(t, i) ==
    IF i > Len(t) THEN TRUE
    ELSE IF t[i] = "{{"
      THEN /\ i + 2 <= Len(t)
           /\ t[i + 1] \notin {"{{", "}}", NewLine}
           /\ t[i + 2] = "}}"
           /\ from_string(t, i + 3)
    ELSE from_string(t, i + 1)

\* ConstrainedJinjaEnvironment.validate_template
validate_template(t) == from_string(t, 1)

\* template.render(**context) from token i on: every interpolation gives way
\* to the value of its name
RECURSIVE rendered(_, _, _)
rendered(t, context, i) ==
    IF i > Len(t) THEN <<>>
    ELSE IF t[i] = "{{"
      THEN <<context[t[i + 1]]>> \o rendered(t, context, i + 3)
    ELSE <<t[i]>> \o rendered(t, context, i + 1)

\* the names an interpolation of t reads
RECURSIVE names_read(_, _)
names_read(t, i) ==
    IF i > Len(t) THEN {}
    ELSE IF t[i] = "{{" THEN {t[i + 1]} \cup names_read(t, i + 3)
    ELSE names_read(t, i + 1)

\* ConstrainedJinjaEnvironment.render: a template that does not compile or
\* reads an undefined name (StrictUndefined) is a PetalTemplateError
env_render(t, context) ==
    IF ~from_string(t, 1)
      THEN [raised |-> TRUE, message |-> "Template rendering error", result |-> <<>>]
    ELSE IF ~(names_read(t, 1) \subseteq DOMAIN context)
      THEN [raised |-> TRUE, message |-> "Template rendering error", result |-> <<>>]
    ELSE [raised |-> FALSE, message |-> None, result |-> rendered(t, context, 1)]

NestedMessage == "Nested template rendering is not allowed"

\* PetalTemplateEngine.render_single_pass
render_single_pass(t, context) ==
    IF has_nested_templates(t)
      THEN [raised |-> TRUE, message |-> NestedMessage, result |-> <<>>]
      ELSE env_render(t, context)

\* PetalTemplateEngine.validate_petal_template: (is_valid, error_message)
validate_petal_template(t) ==
    IF ~validate_template(t) THEN <<FALSE, "Invalid template syntax">>
    ELSE IF has_nested_templates(t) THEN <<FALSE, NestedMessage>>
    ELSE <<TRUE, None>>

\* the context of the rendering: the name a is defined
RenderContext == ("a" :> "v")

RenderSinglePass(t) ==
    /\ template_str' = t
    /\ template_outcome' =
          <<[call |-> "render_single_pass"] @@ render_single_pass(t, RenderContext)>>
    /\ UNCHANGED <<vars, runVars, registryVars, validatorVars, parserVars,
                   loaderVars, retryVars>>

ValidatePetalTemplate(t) ==
    /\ template_str' = t
    /\ template_outcome' =
          <<[call |-> "validate_petal_template", raised |-> FALSE,
             message |-> validate_petal_template(t)[2],
             result |-> <<validate_petal_template(t)[1]>>]>>
    /\ UNCHANGED <<vars, runVars, registryVars, validatorVars, parserVars,
                   loaderVars, retryVars>>

NextTemplate ==
    \E t \in Templates : RenderSinglePass(t) \/ ValidatePetalTemplate(t)

SpecTemplate == Init /\ [][NextTemplate]_templateVars

\* token i stands inside an interpolation that is not closed yet
InsideInterpolation(t, i) ==
    \E j \in 1..(i - 1) :
        t[j] = "{{" /\ \A k \in (j + 1)..(i - 1) : t[k] # "}}"

\* actual nesting: a "{{" or a render/include/extends token inside an
\* interpolation that is not closed yet
ActuallyNested(t) ==
    \E i \in DOMAIN t :
        t[i] \in {"{{"} \cup NestedKeywords /\ InsideInterpolation(t, i)

\* the latest call rejected the template
Rejected ==
    \/ template_outcome[1].raised
    \/ /\ template_outcome[1].call = "validate_petal_template"
       /\ ~template_outcome[1].result[1]

\* C25: render_single_pass and validate_petal_template reject a template
\* with actual nesting, and reject a template as nested only when it has
\* actual nesting; separate interpolations one after the other, however
\* many on a line, are never rejected as nested.
C25_NestedOnlyWhenNested ==
    template_outcome # <<>> =>
        /\ ActuallyNested(template_str) => Rejected
        /\ (Rejected /\ template_outcome[1].message = NestedMessage) =>
               ActuallyNested(template_str)

----------------------------------------------------------------------------
(* The end of execute *)

\* execute has returned a report or raised
Ended == pc \in {"returned", "raised"}

\* C26: when execute has ended, no step has status running or retrying,
\* current_step is None, and the step whose failure ended the run has
\* status failed.
C26_LifecycleEndsTerminal ==
    Ended =>
        /\ \A s \in DOMAIN step_status : step_status[s] \notin {RUNNING, RETRYING}
        /\ current_step = None
        /\ pc = "raised" => step_status[Step.id] = FAILED

\* C27: a step whose policy is fail or skip and whose tool has failed was
\* invoked once when execute's except clause applies the policy, with or
\* without a retry config.
C27_RetryOnlyUnderRetryPolicy ==
    (pc = "except" /\ Step.if_error \in {"fail", "skip"} /\ failures[idx] > 0) =>
        invocations[idx] = 1

----------------------------------------------------------------------------
(* execute over every file models_strict.PetalFile accepts: the model has   *)
(* no validator over the step ids, so two steps may carry one id; a step    *)
(* declares the names it writes.                                            *)

\* step.writes as drawn: nothing, or both names a tool may hand back
WritesDrawn == {<<>>, <<"a", "b">>}

\* BaseStepConfig for any position: the id is any of the ids
StrictStepConfigs ==
    [id : StepIds, uses : UsesNames, if_error : IfErrorPolicy,
     retry : RetryConfigs, when : {None}, needs : {{}}, writes : WritesDrawn]

RECURSIVE StrictFilesOf(_)
StrictFilesOf(n) ==
    IF n = 0 THEN {<<>>}
    ELSE {Append(w, st) : w \in StrictFilesOf(n - 1), st \in StrictStepConfigs}

PetalFiles(max_steps) == UNION {StrictFilesOf(n) : n \in 1..max_steps}

NextPetalFile == Execute(PetalFiles(MaxSteps)) \/ Run

SpecPetalFile == Init /\ [][NextPetalFile]_vars

\* the step ids of the file
DeclaredIds == {petal_file[i].id : i \in DOMAIN petal_file}

\* the results of the completed steps among the first n of the file, merged
\* in the order of the file
RECURSIVE MergedResults(_)
MergedResults(n) ==
    IF n = 0 THEN EmptyDict
    ELSE IF step_status[petal_file[n].id] = COMPLETED
      THEN DictUpdate(MergedResults(n - 1), report.step_results[petal_file[n].id])
      ELSE MergedResults(n - 1)

\* C28: in a report of status completed every declared step is completed or
\* skipped, step_results has an entry for a step exactly when the step is
\* completed, and state is the merge of the results of the completed steps
\* in execution order.
C28_CompletedReportConsistent ==
    (report # <<>> /\ report.status = "completed") =>
        /\ \A s \in DeclaredIds :
              /\ s \in DOMAIN step_status
              /\ step_status[s] \in {COMPLETED, SKIPPED}
              /\ s \in DOMAIN report.step_results <=> step_status[s] = COMPLETED
        /\ report.state = MergedResults(Len(petal_file))

\* the names a step declares to write
writes_of(step) == {step.writes[k] : k \in DOMAIN step.writes}

\* WorkflowState.validate_step_outputs: the declared writes are among the
\* keys of the outputs; a config without writes accepts any outputs
validate_step_outputs(step_config, outputs) ==
    IF "writes" \in DOMAIN step_config
      THEN writes_of(step_config) \subseteq DOMAIN outputs
      ELSE TRUE

\* ToolRegistry.execute_step around a tool call that returned result: the
\* one place that calls validate_step_outputs. _execute_step does not go
\* through it: it takes the tool from get_tool and calls tool.execute
\* itself (StartStep, ToolReturns).
execute_step(step, result) ==
    IF get_tool(step.uses) = None
      THEN Raised("ValueError", "Tool not found: " \o step.uses)
    ELSE IF ~validate_step_outputs(step, result)
      THEN Raised("ValueError", "Tool outputs don't match step writes: " \o step.id)
    ELSE Returned(result)

\* C29: a step that has just been marked completed has a result that holds
\* every name of the step's declared writes.
C29_CompletedOnlyWithDeclaredWrites ==
    (pc = "loop" /\ idx > 1 /\ step_status[petal_file[idx - 1].id] = COMPLETED) =>
        validate_step_outputs(petal_file[idx - 1],
                              step_results[petal_file[idx - 1].id])

----------------------------------------------------------------------------
(* Termination of execute. The executor is one sequential thread: once      *)
(* execute is called, the step of the code that comes next is taken, every  *)
(* tool call returns or raises, and every wait of tenacity is finite (at    *)
(* most max_delay). The calls of execute themselves are not forced.         *)

SpecFair == Init /\ [][Next]_vars /\ WF_vars(Run)

\* C30: a call of execute ends: from any point of a run on, execute
\* eventually has returned a report or raised.
C30_ExecuteTerminates == (pc # "idle") ~> Ended

\* a run has ended after the retries of a step were all used up
C30_Witness ==
    /\ Ended
    /\ \E i \in DOMAIN petal_file :
          /\ petal_file[i].retry # <<>>
          /\ petal_file[i].retry[1].max_attempts > 1
          /\ failures[i] = petal_file[i].retry[1].max_attempts

====
